---- MODULE Spec2Model ----
(***************************************************************************)
(* Model of the signal-to-decision engine of OMRChecker: threshold         *)
(* strategies, bubble field interpretation, shift validation, detection    *)
(* fusion, the detection repository, the processing pipeline and the       *)
(* configuration schema rule on interactive preview.                       *)
(*                                                                         *)
(* Floating point quantities are modelled as exact rationals [n, d] with   *)
(* d > 0, kept in lowest terms, so that equal values are equal records.    *)
(***************************************************************************)
EXTENDS Integers, Sequences, FiniteSets, TLC

VARIABLES
    \* ---- threshold strategies (strategies.py) ----
    bubble_mean_values,   \* the sample list handed to calculate_threshold
    config,               \* the ThresholdConfig handed to calculate_threshold
    strategy,             \* the strategy object calculate_threshold is called on
    threshold_result,     \* the ThresholdResult returned (method_used "none" before the call)
    \* ---- bubble field interpretation (interpretation.py) ----
    field_bubble_means,   \* detection_result.bubble_means: the mean value of each item
    empty_value,          \* the field's configured empty value
    tuning_config,        \* thresholding constants and outputs.show_confidence_metrics
    file_level_fallback_threshold,  \* entry of file_level_interpretation_aggregates
    interpretation,       \* the fields of the BubblesFieldInterpretation object
    \* ---- shift validation (shift_detection_processor.py) ----
    shift_config,         \* the ShiftDetectionConfig of the processor
    stats,                \* ShiftDetectionProcessor.stats
    ml_alignments,        \* the argument of the latest _validate_shifts call
    validated,            \* the dictionary the latest _validate_shifts call returned
    validate_calls,       \* number of _validate_shifts calls made so far
    \* ---- detection fusion (detection_fusion.py) ----
    fusion_strategy,      \* DetectionFusion.fusion_strategy
    fusion_call,          \* the latest call on the DetectionFusion object and its arguments
    fusion_return,        \* what that call returned
    \* ---- detection repository (detection_repository.py) ----
    repo,                 \* the DetectionRepository object and the objects it refers to
    repo_outcome,         \* the latest repository call, its arguments and its outcome
    finalized_paths,      \* history: paths active at a finalize_file since the last reset
    save_calls,           \* number of save_*_field calls made so far
    \* ---- processing pipeline (processors/pipeline.py) ----
    processors,           \* ProcessingPipeline.processors
    pipeline_call,        \* the latest call on the pipeline, its arguments, the list before it
    pipeline_return,      \* what that call returned or raised
    add_calls,            \* number of add_processor calls made so far
    \* ---- configuration validation (validations.py, config_schema.py) ----
    json_data,            \* the configuration handed to validate_config_json
    validation,           \* the outcome of validate_config_json
    \* ---- worker tasks sharing one ShiftDetectionProcessor ----
    tasks,                \* per worker: its file's proposals and its position in the code
    \* ---- ShiftDetectionProcessor.process on one file ----
    template_field_blocks,  \* template.field_blocks: the shifts of each block
    shift_call,           \* the latest call on the processor and its arguments
    shift_return,         \* what that call returned or raised
    \* ---- file tasks sharing one DetectionRepository (detection_pass.py) ----
    file_tasks,           \* per file: the position of its detection pass
    saved_by              \* history: which file's task saved which field with which result

thVars == <<bubble_mean_values, config, strategy, threshold_result>>
inVars == <<field_bubble_means, empty_value, tuning_config,
            file_level_fallback_threshold, interpretation>>
shVars == <<shift_config, stats, ml_alignments, validated, validate_calls>>
fuVars == <<fusion_strategy, fusion_call, fusion_return>>
reVars == <<repo, repo_outcome, finalized_paths, save_calls>>
piVars == <<processors, pipeline_call, pipeline_return, add_calls>>
cfVars == <<json_data, validation>>
coVars == <<tasks>>
spVars == <<template_field_blocks, shift_call, shift_return>>
dpVars == <<file_tasks, saved_by>>

vars == <<thVars, inVars, shVars, fuVars, reVars, piVars, cfVars, coVars, spVars, dpVars>>

\* the variables of the other components, which a component's step leaves alone
exceptTh == <<inVars, shVars, fuVars, reVars, piVars, cfVars, coVars, spVars, dpVars>>
exceptIn == <<thVars, shVars, fuVars, reVars, piVars, cfVars, coVars, spVars, dpVars>>
exceptSh == <<thVars, inVars, fuVars, reVars, piVars, cfVars, coVars, spVars, dpVars>>
exceptFu == <<thVars, inVars, shVars, reVars, piVars, cfVars, coVars, spVars, dpVars>>
exceptRe == <<thVars, inVars, shVars, fuVars, piVars, cfVars, coVars, spVars, dpVars>>
exceptPi == <<thVars, inVars, shVars, fuVars, reVars, cfVars, coVars, spVars, dpVars>>
exceptCf == <<thVars, inVars, shVars, fuVars, reVars, piVars, coVars, spVars, dpVars>>
exceptCo == <<thVars, inVars, fuVars, reVars, piVars, cfVars, spVars, dpVars>>
exceptSp == <<thVars, inVars, fuVars, reVars, piVars, cfVars, coVars, dpVars>>
exceptDp == <<thVars, inVars, shVars, fuVars, piVars, cfVars, coVars, spVars>>

----------------------------------------------------------------------------
(* Bounds of the model *)

MaxLen == 4
MaxValidateCalls == 2
MaxFiles == 2
MaxSaves == 1
MaxAdds == 2

----------------------------------------------------------------------------
(* Exact rational arithmetic standing for Python floats *)

Abs(x) == IF x < 0 THEN -x ELSE x

RECURSIVE Gcd(_, _)
Gcd(a, b) == IF b = 0 THEN a ELSE Gcd(b, a % b)

Rat(n, d) ==
    LET g == Gcd(Abs(n), Abs(d))
        s == IF d < 0 THEN -1 ELSE 1
    IN  [n |-> (s * n) \div g, d |-> (s * d) \div g]

RInt(k) == [n |-> k, d |-> 1]
RAdd(a, b) == Rat(a.n * b.d + b.n * a.d, a.d * b.d)
RMul(a, b) == Rat(a.n * b.n, a.d * b.d)
RDiv(a, b) == Rat(a.n * b.d, a.d * b.n)
RLt(a, b) == a.n * b.d < b.n * a.d
RLe(a, b) == a.n * b.d <= b.n * a.d
RMin(a, b) == IF RLe(a, b) THEN a ELSE b
RMax(a, b) == IF RLe(a, b) THEN b ELSE a

----------------------------------------------------------------------------
(* Python builtins used by the strategies *)

RECURSIVE Insert(_, _)
Insert(x, s) ==
    IF s = <<>> THEN <<x>>
    ELSE IF x < Head(s) THEN <<x>> \o s
    ELSE <<Head(s)>> \o Insert(x, Tail(s))

RECURSIVE sorted(_)
sorted(s) == IF s = <<>> THEN <<>> ELSE Insert(Head(s), sorted(Tail(s)))

RECURSIVE MinOf(_)
MinOf(s) == IF Len(s) = 1 THEN s[1]
            ELSE LET m == MinOf(Tail(s)) IN IF s[1] <= m THEN s[1] ELSE m

RECURSIVE MaxOf(_)
MaxOf(s) == IF Len(s) = 1 THEN s[1]
            ELSE LET m == MaxOf(Tail(s)) IN IF s[1] >= m THEN s[1] ELSE m

----------------------------------------------------------------------------
(* ThresholdResult and ThresholdConfig *)

ThresholdResult(tv, conf, mj, method, fb) ==
    [threshold_value |-> tv, confidence |-> conf, max_jump |-> mj,
     method_used |-> method, fallback_used |-> fb]

NoResult == ThresholdResult(RInt(0), RInt(0), 0, "none", FALSE)

\* ThresholdConfig() with the dataclass defaults
DataclassDefaults ==
    [min_jump |-> 30, min_gap_two_bubbles |-> 20,
     min_jump_surplus_for_global_fallback |-> 10,
     default_threshold |-> Rat(255, 2)]

\* the ThresholdConfig built from CONFIG_DEFAULTS.thresholding
TuningDefaults ==
    [min_jump |-> 25, min_gap_two_bubbles |-> 30,
     min_jump_surplus_for_global_fallback |-> 5,
     default_threshold |-> RInt(200)]

\* a schema-valid tuning at the low end of the allowed ranges
TuningLow ==
    [min_jump |-> 10, min_gap_two_bubbles |-> 10,
     min_jump_surplus_for_global_fallback |-> 0,
     default_threshold |-> RInt(100)]

Configs == {DataclassDefaults, TuningDefaults, TuningLow}

----------------------------------------------------------------------------
(* GlobalThresholdStrategy.calculate_threshold *)

\* the loop "for i in range(ls, total_bubbles_loose)" with ls = 1; i is the
\* 1-based position of the window centre (Python index i - 1)
\* variant: a later window with an equal jump replaces the earlier one
RECURSIVE GlobalScan_LastIndex(_, _, _, _)
GlobalScan_LastIndex(sorted_values, i, max_jump, threshold) ==
    IF i > Len(sorted_values) - 1
    THEN [max_jump |-> max_jump, threshold |-> threshold]
    ELSE LET jump == sorted_values[i + 1] - sorted_values[i - 1]
         IN  IF jump >= max_jump
             THEN GlobalScan_LastIndex(sorted_values, i + 1, jump,
                                       Rat(2 * sorted_values[i - 1] + jump, 2))
             ELSE GlobalScan_LastIndex(sorted_values, i + 1, max_jump, threshold)

RECURSIVE GlobalScan(_, _, _, _)
GlobalScan(sorted_values, i, max_jump, threshold) ==
    IF i > Len(sorted_values) - 1
    THEN [max_jump |-> max_jump, threshold |-> threshold]
    ELSE LET jump == sorted_values[i + 1] - sorted_values[i - 1]
         IN  IF jump > max_jump
             THEN GlobalScan(sorted_values, i + 1, jump,
                             Rat(2 * sorted_values[i - 1] + jump, 2))
             ELSE GlobalScan(sorted_values, i + 1, max_jump, threshold)

\* variant: the confidence is not capped at 1.0
GlobalCalculateThreshold_Uncapped(values, cfg) ==
    IF Len(values) < 2
    THEN ThresholdResult(cfg.default_threshold, RInt(0), 0, "global_default", TRUE)
    ELSE LET sorted_values == sorted(values)
             r == GlobalScan(sorted_values, 2, cfg.min_jump, cfg.default_threshold)
             confidence == Rat(r.max_jump, cfg.min_jump * 3)
         IN  ThresholdResult(r.threshold, confidence, r.max_jump,
                             "global_max_jump", r.max_jump < cfg.min_jump)

GlobalCalculateThreshold(values, cfg) ==
    IF Len(values) < 2
    THEN ThresholdResult(cfg.default_threshold, RInt(0), 0, "global_default", TRUE)
    ELSE LET sorted_values == sorted(values)
             r == GlobalScan(sorted_values, 2, cfg.min_jump, cfg.default_threshold)
             confidence == RMin(RInt(1), Rat(r.max_jump, cfg.min_jump * 3))
         IN  ThresholdResult(r.threshold, confidence, r.max_jump,
                             "global_max_jump", r.max_jump < cfg.min_jump)

----------------------------------------------------------------------------
(* LocalThresholdStrategy.calculate_threshold *)

None == [some |-> FALSE, v |-> RInt(0)]
Some(r) == [some |-> TRUE, v |-> r]

\* "self.global_fallback or config.default_threshold": None and 0.0 are falsy
FallbackThreshold(global_fallback, cfg) ==
    IF global_fallback.some /\ global_fallback.v.n # 0
    THEN global_fallback.v
    ELSE cfg.default_threshold

\* the loop "for i in range(1, len(sorted_values) - 1)"
\* variant: a later window with an equal jump replaces the earlier one
RECURSIVE LocalScan_LastIndex(_, _, _, _)
LocalScan_LastIndex(sorted_values, i, max_jump, threshold) ==
    IF i > Len(sorted_values) - 1
    THEN [max_jump |-> max_jump, threshold |-> threshold]
    ELSE LET jump == sorted_values[i + 1] - sorted_values[i - 1]
         IN  IF jump >= max_jump
             THEN LocalScan_LastIndex(sorted_values, i + 1, jump,
                                      Rat(2 * sorted_values[i - 1] + jump, 2))
             ELSE LocalScan_LastIndex(sorted_values, i + 1, max_jump, threshold)

RECURSIVE LocalScan(_, _, _, _)
LocalScan(sorted_values, i, max_jump, threshold) ==
    IF i > Len(sorted_values) - 1
    THEN [max_jump |-> max_jump, threshold |-> threshold]
    ELSE LET jump == sorted_values[i + 1] - sorted_values[i - 1]
         IN  IF jump > max_jump
             THEN LocalScan(sorted_values, i + 1, jump,
                            Rat(2 * sorted_values[i - 1] + jump, 2))
             ELSE LocalScan(sorted_values, i + 1, max_jump, threshold)

\* variant: the samples are taken in the order given
LocalCalculateThreshold_Unsorted(global_fallback, values, cfg) ==
    LET fallback_threshold == FallbackThreshold(global_fallback, cfg)
        sorted_values == values
    IN  IF Len(values) < 2
        THEN ThresholdResult(fallback_threshold, RInt(0), 0,
                             "local_single_bubble_fallback", TRUE)
        ELSE IF Len(sorted_values) = 2
        THEN LET gap == sorted_values[2] - sorted_values[1]
             IN  IF gap < cfg.min_gap_two_bubbles
                 THEN ThresholdResult(fallback_threshold, Rat(3, 10), gap,
                                      "local_two_bubbles_small_gap_fallback", TRUE)
                 ELSE ThresholdResult(Rat(sorted_values[1] + sorted_values[2], 2),
                                      Rat(7, 10), gap,
                                      "local_two_bubbles_mean", FALSE)
        ELSE LET r == LocalScan(sorted_values, 2, 0, fallback_threshold)
                 confident_jump ==
                     cfg.min_jump + cfg.min_jump_surplus_for_global_fallback
             IN  IF r.max_jump < confident_jump
                 THEN ThresholdResult(fallback_threshold, Rat(4, 10), r.max_jump,
                                      "local_low_confidence_global_fallback", TRUE)
                 ELSE ThresholdResult(r.threshold,
                                      RMin(RInt(1), Rat(r.max_jump, confident_jump * 2)),
                                      r.max_jump, "local_max_jump", FALSE)

LocalCalculateThreshold(global_fallback, values, cfg) ==
    LET fallback_threshold == FallbackThreshold(global_fallback, cfg)
        sorted_values == sorted(values)
    IN  IF Len(values) < 2
        THEN ThresholdResult(fallback_threshold, RInt(0), 0,
                             "local_single_bubble_fallback", TRUE)
        ELSE IF Len(sorted_values) = 2
        THEN LET gap == sorted_values[2] - sorted_values[1]
             IN  IF gap < cfg.min_gap_two_bubbles
                 THEN ThresholdResult(fallback_threshold, Rat(3, 10), gap,
                                      "local_two_bubbles_small_gap_fallback", TRUE)
                 ELSE ThresholdResult(Rat(sorted_values[1] + sorted_values[2], 2),
                                      Rat(7, 10), gap,
                                      "local_two_bubbles_mean", FALSE)
        ELSE LET r == LocalScan(sorted_values, 2, 0, fallback_threshold)
                 confident_jump ==
                     cfg.min_jump + cfg.min_jump_surplus_for_global_fallback
             IN  IF r.max_jump < confident_jump
                 THEN ThresholdResult(fallback_threshold, Rat(4, 10), r.max_jump,
                                      "local_low_confidence_global_fallback", TRUE)
                 ELSE ThresholdResult(r.threshold,
                                      RMin(RInt(1), Rat(r.max_jump, confident_jump * 2)),
                                      r.max_jump, "local_max_jump", FALSE)

----------------------------------------------------------------------------
(* AdaptiveThresholdStrategy.calculate_threshold *)

GlobalStrategy == [kind |-> "global", global_fallback |-> None,
                   strategies |-> <<>>, weights |-> <<>>]
LocalStrategy(fb) == [kind |-> "local", global_fallback |-> fb,
                      strategies |-> <<>>, weights |-> <<>>]
AdaptiveStrategy(subs, ws) == [kind |-> "adaptive", global_fallback |-> None,
                               strategies |-> subs, weights |-> ws]

\* strategy.calculate_threshold(...) of a member of self.strategies
SubCalculateThreshold(sub, values, cfg) ==
    IF sub.kind = "global"
    THEN GlobalCalculateThreshold(values, cfg)
    ELSE LocalCalculateThreshold(sub.global_fallback, values, cfg)

RECURSIVE SumRat(_, _)
SumRat(f, k) == IF k = 0 THEN RInt(0) ELSE RAdd(SumRat(f, k - 1), f[k])

RECURSIVE MaxRat(_, _)
MaxRat(f, k) == IF k = 1 THEN f[1] ELSE RMax(MaxRat(f, k - 1), f[k])

\* variant: the weights of the strategies are ignored
AdaptiveCalculateThreshold_Unweighted(self, values, cfg) ==
    LET k == Len(self.strategies)
        results == [i \in 1..k |->
                        SubCalculateThreshold(self.strategies[i], values, cfg)]
        total_weight ==
            SumRat([i \in 1..k |-> RMul(results[i].confidence, RInt(1))], k)
    IN  IF total_weight.n = 0
        THEN ThresholdResult(cfg.default_threshold, RInt(0), 0,
                             "adaptive_all_zero_confidence", TRUE)
        ELSE LET weighted_threshold ==
                     RDiv(SumRat([i \in 1..k |->
                                    RMul(RMul(results[i].threshold_value,
                                              results[i].confidence),
                                         RInt(1))], k),
                          total_weight)
                 max_confidence == MaxRat([i \in 1..k |-> results[i].confidence], k)
                 max_jump_value == MaxOf([i \in 1..k |-> results[i].max_jump])
             IN  ThresholdResult(weighted_threshold, max_confidence, max_jump_value,
                                 "adaptive_weighted",
                                 \E i \in 1..k : results[i].fallback_used)

AdaptiveCalculateThreshold(self, values, cfg) ==
    LET k == Len(self.strategies)
        results == [i \in 1..k |->
                        SubCalculateThreshold(self.strategies[i], values, cfg)]
        total_weight ==
            SumRat([i \in 1..k |-> RMul(results[i].confidence, self.weights[i])], k)
    IN  IF total_weight.n = 0
        THEN ThresholdResult(cfg.default_threshold, RInt(0), 0,
                             "adaptive_all_zero_confidence", TRUE)
        ELSE LET weighted_threshold ==
                     RDiv(SumRat([i \in 1..k |->
                                    RMul(RMul(results[i].threshold_value,
                                              results[i].confidence),
                                         self.weights[i])], k),
                          total_weight)
                 max_confidence == MaxRat([i \in 1..k |-> results[i].confidence], k)
                 max_jump_value == MaxOf([i \in 1..k |-> results[i].max_jump])
             IN  ThresholdResult(weighted_threshold, max_confidence, max_jump_value,
                                 "adaptive_weighted",
                                 \E i \in 1..k : results[i].fallback_used)

\* create_default_threshold_calculator(global_threshold)
create_default_threshold_calculator(global_threshold) ==
    AdaptiveStrategy(<<GlobalStrategy, LocalStrategy(global_threshold)>>,
                     <<Rat(4, 10), Rat(6, 10)>>)


----------------------------------------------------------------------------
(* Inputs of the threshold strategies *)

SampleVals == {0, 15, 40, 55, 255}

RECURSIVE SeqsUpTo(_, _)
SeqsUpTo(S, k) ==
    IF k = 0 THEN {<<>>}
    ELSE LET shorter == SeqsUpTo(S, k - 1)
         IN  shorter \cup {Append(q, x) : q \in {r \in shorter : Len(r) = k - 1}, x \in S}

Fallbacks == {None, Some(RInt(0)), Some(RInt(150)), Some(RInt(180))}

Strategies ==
    {GlobalStrategy}
    \cup {LocalStrategy(fb) : fb \in Fallbacks}
    \cup {create_default_threshold_calculator(fb) : fb \in {None, Some(RInt(180))}}
    \cup {AdaptiveStrategy(<<GlobalStrategy, LocalStrategy(None)>>,
                           <<Rat(1, 2), Rat(1, 2)>>),
          AdaptiveStrategy(<<GlobalStrategy>>, <<RInt(1)>>),
          AdaptiveStrategy(<<LocalStrategy(Some(RInt(150)))>>, <<RInt(0)>>)}

ThInit ==
    /\ bubble_mean_values \in SeqsUpTo(SampleVals, MaxLen)
    /\ config \in Configs
    /\ strategy \in Strategies
    /\ threshold_result = NoResult

ThIdle ==
    /\ bubble_mean_values = <<>>
    /\ config = DataclassDefaults
    /\ strategy = GlobalStrategy
    /\ threshold_result = NoResult

\* GlobalThresholdStrategy().calculate_threshold(bubble_mean_values, config)
GlobalCalculate ==
    /\ strategy.kind = "global"
    /\ threshold_result = NoResult
    /\ threshold_result' = GlobalCalculateThreshold(bubble_mean_values, config)
    /\ UNCHANGED <<bubble_mean_values, config, strategy>>
    /\ UNCHANGED exceptTh

\* LocalThresholdStrategy(global_fallback).calculate_threshold(...)
LocalCalculate ==
    /\ strategy.kind = "local"
    /\ threshold_result = NoResult
    /\ threshold_result' =
           LocalCalculateThreshold(strategy.global_fallback, bubble_mean_values, config)
    /\ UNCHANGED <<bubble_mean_values, config, strategy>>
    /\ UNCHANGED exceptTh

\* AdaptiveThresholdStrategy(strategies, weights).calculate_threshold(...)
AdaptiveCalculate ==
    /\ strategy.kind = "adaptive"
    /\ threshold_result = NoResult
    /\ threshold_result' = AdaptiveCalculateThreshold(strategy, bubble_mean_values, config)
    /\ UNCHANGED <<bubble_mean_values, config, strategy>>
    /\ UNCHANGED exceptTh

ThNext == GlobalCalculate \/ LocalCalculate \/ AdaptiveCalculate

----------------------------------------------------------------------------
(* BubbleInterpretation and BubblesFieldInterpretation *)

\* unit_bubble.bubble_value of the items of a field, in item order
BubbleValues == <<"A", "B", "C", "D", "E">>

\* variant: a value equal to the threshold counts as marked
BubbleInterpretation_Inclusive(mean_value, bubble_value, threshold) ==
    [mean_value |-> mean_value,
     is_attempted |-> RLe(RInt(mean_value), threshold),
     bubble_value |-> bubble_value]

\* BubbleInterpretation.__init__
BubbleInterpretation(mean_value, bubble_value, threshold) ==
    [mean_value |-> mean_value,
     is_attempted |-> RLt(RInt(mean_value), threshold),
     bubble_value |-> bubble_value]

\* "".join(strings)
RECURSIVE Join(_)
Join(strings) == IF strings = <<>> THEN "" ELSE Head(strings) \o Join(Tail(strings))

\* [interp.bubble_value for interp in bubble_interpretations if interp.is_attempted]
RECURSIVE MarkedValues(_)
MarkedValues(bis) ==
    IF bis = <<>> THEN <<>>
    ELSE (IF Head(bis).is_attempted THEN <<Head(bis).bubble_value>> ELSE <<>>)
         \o MarkedValues(Tail(bis))

\* variant: without the rule that a field with every item marked reads as empty
get_field_interpretation_string_NoAllMarkedRule(self, empty) ==
    LET marked_bubbles == MarkedValues(self.bubble_interpretations)
    IN  IF Len(marked_bubbles) = 0 THEN empty
        ELSE Join(marked_bubbles)

get_field_interpretation_string(self, empty) ==
    LET marked_bubbles == MarkedValues(self.bubble_interpretations)
        total_bubbles == Len(self.bubble_interpretations)
    IN  IF Len(marked_bubbles) = 0 THEN empty
        ELSE IF Len(marked_bubbles) = total_bubbles THEN empty
        ELSE Join(marked_bubbles)

\* BubblesFieldInterpretation._calculate_threshold
CalculateThreshold(means, fallback_entry, cfg) ==
    LET global_fallback ==
            IF fallback_entry.some THEN fallback_entry
            ELSE Some(cfg.default_threshold)
    IN  LocalCalculateThreshold(global_fallback, means, cfg)

\* BubblesFieldInterpretation._interpret_bubbles
InterpretBubbles(means, threshold) ==
    [i \in 1..Len(means) |-> BubbleInterpretation(means[i], BubbleValues[i], threshold)]

MarkedCount(bis) == Cardinality({i \in 1..Len(bis) : bis[i].is_attempted})

\* BubblesFieldInterpretation._check_multi_marking
CheckMultiMarking(bis) == MarkedCount(bis) > 1

RECURSIVE SumInt(_)
SumInt(q) == IF q = <<>> THEN 0 ELSE Head(q) + SumInt(Tail(q))

\* BubbleFieldDetectionResult.scan_quality: the bucket of np.std(values);
\* std > t is decided exactly as n * sum(x^2) - sum(x)^2 > t^2 * n^2
scan_quality(means) ==
    LET n == Len(means)
        nvar == IF n = 0 THEN 0
                ELSE n * SumInt([i \in 1..n |-> means[i] * means[i]])
                     - SumInt(means) * SumInt(means)
    IN  IF nvar > 2500 * n * n THEN "excellent"
        ELSE IF nvar > 900 * n * n THEN "good"
        ELSE IF nvar > 225 * n * n THEN "acceptable"
        ELSE "poor"

\* scan_quality_map.get(detection_result.scan_quality.value, 0.5)
ScanQualityFactor(value) ==
    IF value = "EXCELLENT" THEN RInt(1)
    ELSE IF value = "GOOD" THEN Rat(9, 10)
    ELSE IF value = "MODERATE" THEN Rat(7, 10)
    ELSE IF value = "POOR" THEN Rat(5, 10)
    ELSE Rat(5, 10)

\* variant: the three weights add up to 1 (0.45, 0.35, 0.20)
CalculateOverallConfidenceScore_WeightsSumToOne(means, tr, local_threshold, disparity_count) ==
    IF means = <<>> THEN RInt(0)
    ELSE
    LET n == Len(means)
        marked == {i \in 1..n : RLt(RInt(means[i]), local_threshold)}
        marked_count == Cardinality(marked)
        distances == [i \in 1..n |->
                        IF i \in marked
                        THEN RAdd(local_threshold, RInt(-means[i]))
                        ELSE IF marked_count = 0
                        THEN RAdd(RInt(means[i]), RMul(RInt(-1), local_threshold))
                        ELSE RInt(0)]
        avg == RDiv(SumRat(distances, n),
                    RInt(IF marked_count > 0 THEN marked_count ELSE n))
        margin_confidence == RMin(RInt(1), RDiv(avg, RInt(50)))
        multi_mark_penalty ==
            IF marked_count > 1 THEN Rat(3, 10)
            ELSE IF marked_count = 0 THEN Rat(1, 10)
            ELSE RInt(0)
        disparity_penalty == RMul(Rat(disparity_count, n), Rat(4, 10))
        scan_quality_factor == ScanQualityFactor(scan_quality(means))
        confidence_score ==
            RMul(RAdd(RAdd(RMul(tr.confidence, Rat(45, 100)),
                           RMul(margin_confidence, Rat(35, 100))),
                      RMul(scan_quality_factor, Rat(20, 100))),
                 RAdd(RInt(1),
                      RMul(RInt(-1), RAdd(multi_mark_penalty, disparity_penalty))))
    IN  RMax(RInt(0), RMin(RInt(1), confidence_score))

\* BubblesFieldInterpretation._calculate_overall_confidence_score
CalculateOverallConfidenceScore(means, tr, local_threshold, disparity_count) ==
    IF means = <<>> THEN RInt(0)
    ELSE
    LET n == Len(means)
        marked == {i \in 1..n : RLt(RInt(means[i]), local_threshold)}
        marked_count == Cardinality(marked)
        distances == [i \in 1..n |->
                        IF i \in marked
                        THEN RAdd(local_threshold, RInt(-means[i]))
                        ELSE IF marked_count = 0
                        THEN RAdd(RInt(means[i]), RMul(RInt(-1), local_threshold))
                        ELSE RInt(0)]
        avg == RDiv(SumRat(distances, n),
                    RInt(IF marked_count > 0 THEN marked_count ELSE n))
        margin_confidence == RMin(RInt(1), RDiv(avg, RInt(50)))
        multi_mark_penalty ==
            IF marked_count > 1 THEN Rat(3, 10)
            ELSE IF marked_count = 0 THEN Rat(1, 10)
            ELSE RInt(0)
        disparity_penalty == RMul(Rat(disparity_count, n), Rat(4, 10))
        scan_quality_factor == ScanQualityFactor(scan_quality(means))
        confidence_score ==
            RMul(RAdd(RAdd(RMul(tr.confidence, Rat(35, 100)),
                           RMul(margin_confidence, Rat(25, 100))),
                      RMul(scan_quality_factor, Rat(20, 100))),
                 RAdd(RInt(1),
                      RMul(RInt(-1), RAdd(multi_mark_penalty, disparity_penalty))))
    IN  RMax(RInt(0), RMin(RInt(1), confidence_score))

\* BubblesFieldInterpretation._calculate_confidence_metrics
CalculateConfidenceMetrics(means, fallback_entry, tr) ==
    LET local_threshold == tr.threshold_value
        global_threshold ==
            IF fallback_entry.some THEN fallback_entry.v ELSE tr.threshold_value
        disparity_bubbles ==
            {i \in 1..Len(means) :
                RLt(RInt(means[i]), local_threshold)
                    # RLt(RInt(means[i]), global_threshold)}
    IN  [overall_confidence_score |->
             CalculateOverallConfidenceScore(means, tr, local_threshold,
                                             Cardinality(disparity_bubbles)),
         scan_quality |-> scan_quality(means),
         disparity_count |-> Cardinality(disparity_bubbles),
         present |-> TRUE]

NoMetrics == [overall_confidence_score |-> RInt(0), scan_quality |-> "poor",
              disparity_count |-> 0, present |-> FALSE]

\* BubblesFieldInterpretation.__init__
NotInterpreted ==
    [ran |-> FALSE, threshold_result |-> NoResult,
     local_threshold_for_field |-> RInt(0), bubble_interpretations |-> <<>>,
     is_multi_marked |-> FALSE, confidence_metrics |-> NoMetrics]

InInit ==
    /\ field_bubble_means \in SeqsUpTo(SampleVals, MaxLen)
    /\ empty_value \in {"", "-"}
    /\ tuning_config \in [thresholding : Configs, show_confidence_metrics : BOOLEAN]
    /\ file_level_fallback_threshold \in {None, Some(RInt(40)), Some(RInt(150))}
    /\ interpretation = NotInterpreted

InIdle ==
    /\ field_bubble_means = <<>>
    /\ empty_value = ""
    /\ tuning_config = [thresholding |-> TuningDefaults, show_confidence_metrics |-> FALSE]
    /\ file_level_fallback_threshold = None
    /\ interpretation = NotInterpreted

\* BubblesFieldInterpretation.run_interpretation
RunInterpretation ==
    /\ ~interpretation.ran
    /\ LET tr == CalculateThreshold(field_bubble_means, file_level_fallback_threshold,
                                    tuning_config.thresholding)
           bis == InterpretBubbles(field_bubble_means, tr.threshold_value)
       IN  interpretation' =
               [ran |-> TRUE,
                threshold_result |-> tr,
                local_threshold_for_field |-> tr.threshold_value,
                bubble_interpretations |-> bis,
                is_multi_marked |-> CheckMultiMarking(bis),
                confidence_metrics |->
                    IF tuning_config.show_confidence_metrics
                    THEN CalculateConfidenceMetrics(field_bubble_means,
                                                    file_level_fallback_threshold, tr)
                    ELSE NoMetrics]
    /\ UNCHANGED <<field_bubble_means, empty_value, tuning_config,
                   file_level_fallback_threshold>>
    /\ UNCHANGED exceptIn

InNext == RunInterpretation

----------------------------------------------------------------------------
(* ShiftDetectionProcessor._validate_shifts *)

BlockNames == {"MCQBlock1a1", "MCQBlock1a2", "Booklet_No"}

\* largest r with r * r <= s
RECURSIVE ISqrt(_, _)
ISqrt(s, r) == IF (r + 1) * (r + 1) > s THEN r ELSE ISqrt(s, r + 1)

\* vector_magnitude([dx, dy]) = sum(x**2 for x in vector) ** 0.5, kept as the
\* integer part of the root and whether the root is that integer
vector_magnitude(vector) ==
    LET s == vector[1] * vector[1] + vector[2] * vector[2]
        r == ISqrt(s, 0)
    IN  [floor |-> r, exact |-> r * r = s]

\* shift_magnitude <= max_shift for an integer max_shift
MagnitudeLe(shift_magnitude, max_shift) ==
    IF shift_magnitude.exact
    THEN shift_magnitude.floor <= max_shift
    ELSE shift_magnitude.floor < max_shift

\* per_block_max_shift_pixels.get(block_name, global_max_shift_pixels)
MaxShift(cfg, block_name) ==
    IF block_name \in DOMAIN cfg.per_block_max_shift_pixels
    THEN cfg.per_block_max_shift_pixels[block_name]
    ELSE cfg.global_max_shift_pixels

\* variant: the per-block override is not consulted
ShiftAccepted_GlobalOnly(cfg, block_name, shift) ==
    MagnitudeLe(vector_magnitude(shift), cfg.global_max_shift_pixels)

\* the test "if shift_magnitude <= max_shift" of one proposal
ShiftAccepted(cfg, block_name, shift) ==
    MagnitudeLe(vector_magnitude(shift), MaxShift(cfg, block_name))

\* the dictionary built by the loop over ml_alignments.items()
ValidateShifts(cfg, alignments) ==
    [b \in {x \in DOMAIN alignments : ShiftAccepted(cfg, x, alignments[x])} |->
        [dx |-> alignments[b][1], dy |-> alignments[b][2]]]

ShiftValues == {<<3, 4>>, <<-4, 4>>, <<30, 30>>}

Alignments == UNION {[B -> ShiftValues] : B \in SUBSET BlockNames}

ShiftConfigs ==
    {[enabled |-> TRUE, global_max_shift_pixels |-> g, per_block_max_shift_pixels |-> pb] :
        g \in {5, 30},
        pb \in {<<>>,
                [b \in {"MCQBlock1a1", "MCQBlock1a2"} |->
                    IF b = "MCQBlock1a1" THEN 5 ELSE 50]}}

\* ShiftDetectionProcessor.__init__
ShInit ==
    /\ shift_config \in ShiftConfigs
    /\ stats = [shifts_applied |-> 0, shifts_rejected |-> 0,
                mismatches_detected |-> 0, confidence_reductions |-> <<>>]
    /\ ml_alignments = <<>>
    /\ validated = <<>>
    /\ validate_calls = 0

ShIdle ==
    /\ shift_config = [enabled |-> FALSE, global_max_shift_pixels |-> 50,
                       per_block_max_shift_pixels |-> <<>>]
    /\ stats = [shifts_applied |-> 0, shifts_rejected |-> 0,
                mismatches_detected |-> 0, confidence_reductions |-> <<>>]
    /\ ml_alignments = <<>>
    /\ validated = <<>>
    /\ validate_calls = 0

\* one call processor._validate_shifts(alignments)
ValidateShiftsCall ==
    /\ validate_calls < MaxValidateCalls
    /\ \E alignments \in Alignments :
        LET result == ValidateShifts(shift_config, alignments)
            accepted == Cardinality(DOMAIN result)
            rejected == Cardinality(DOMAIN alignments) - accepted
        IN  /\ ml_alignments' = alignments
            /\ validated' = result
            /\ stats' = [stats EXCEPT !.shifts_applied = @ + accepted,
                                      !.shifts_rejected = @ + rejected]
    /\ validate_calls' = validate_calls + 1
    /\ UNCHANGED shift_config
    /\ UNCHANGED exceptSh

ShNext == ValidateShiftsCall

----------------------------------------------------------------------------
(* DetectionFusion *)

\* FUSION_STRATEGIES: strategy name -> method name
FUSION_STRATEGIES ==
    [name \in {"confidence_weighted", "ml_fallback", "traditional_primary"} |->
        IF name = "confidence_weighted" THEN "_confidence_weighted_fusion"
        ELSE IF name = "ml_fallback" THEN "_ml_fallback_fusion"
        ELSE "_traditional_primary_fusion"]

\* a traditional interpretation object: matched_bubbles and, when the
\* attribute exists, overall_confidence_score
TradInterp(bubbles, score) ==
    [source |-> "traditional", bubbles |-> bubbles, confidence |-> score]

\* an ML interpretation dictionary: detected_bubbles and, when the key
\* exists, confidence
MlInterp(bubbles, conf) ==
    [source |-> "ml", bubbles |-> bubbles, confidence |-> conf]

NoMl == [source |-> "None", bubbles |-> <<>>, confidence |-> None]
NoDiscrepancy == [field_id |-> "", reason |-> "None"]

\* getattr(trad_interp, "overall_confidence_score", 0.0) and
\* ml_interp.get("confidence", 0.0)
ConfidenceOf(interp) == IF interp.confidence.some THEN interp.confidence.v ELSE RInt(0)

\* DetectionFusion._find_ml_interpretation
find_ml_interpretation(field_id, ml_blocks_response) == NoMl

\* DetectionFusion._responses_agree
responses_agree(trad_response, ml_response) == TRUE

\* DetectionFusion._create_ml_interpretation
create_ml_interpretation(ml_interp) == ml_interp

Returned(fused, discrepancy) ==
    [fused |-> fused, discrepancy |-> discrepancy, raised |-> "None"]

\* variant: on high-confidence agreement the ML interpretation is returned
confidence_weighted_fusion_PrefersMl(field_id, trad_interp, ml_interp, confidence_threshold) ==
    LET trad_confidence == ConfidenceOf(trad_interp)
        ml_confidence == ConfidenceOf(ml_interp)
    IN  IF RLt(confidence_threshold, trad_confidence)
           /\ RLt(confidence_threshold, ml_confidence)
        THEN Returned(create_ml_interpretation(ml_interp), NoDiscrepancy)
        ELSE Returned(trad_interp, NoDiscrepancy)

\* DetectionFusion._confidence_weighted_fusion
confidence_weighted_fusion(field_id, trad_interp, ml_interp, confidence_threshold) ==
    LET trad_confidence == ConfidenceOf(trad_interp)
        ml_confidence == ConfidenceOf(ml_interp)
        agree == responses_agree(trad_interp.bubbles, ml_interp.bubbles)
    IN  IF RLt(confidence_threshold, trad_confidence)
           /\ RLt(confidence_threshold, ml_confidence)
        THEN IF agree
             THEN Returned(trad_interp, NoDiscrepancy)
             ELSE LET discrepancy ==
                          [field_id |-> field_id,
                           reason |-> "high_confidence_disagreement"]
                  IN  IF RLt(ml_confidence, trad_confidence)
                      THEN Returned(trad_interp, discrepancy)
                      ELSE Returned(create_ml_interpretation(ml_interp), discrepancy)
        ELSE IF RLt(trad_confidence, Rat(6, 10))
                /\ RLt(confidence_threshold, ml_confidence)
        THEN Returned(create_ml_interpretation(ml_interp), NoDiscrepancy)
        ELSE Returned(trad_interp, NoDiscrepancy)

\* DetectionFusion._ml_fallback_fusion
ml_fallback_fusion(field_id, trad_interp, ml_interp, confidence_threshold) ==
    IF RLt(ConfidenceOf(trad_interp), Rat(6, 10))
    THEN Returned(create_ml_interpretation(ml_interp), NoDiscrepancy)
    ELSE Returned(trad_interp, NoDiscrepancy)

\* DetectionFusion._traditional_primary_fusion(field_id, trad_interp, ml_interp)
traditional_primary_fusion(field_id, trad_interp, ml_interp) ==
    IF ~responses_agree(trad_interp.bubbles, ml_interp.bubbles)
    THEN Returned(trad_interp,
                  [field_id |-> field_id, reason |-> "informational_difference"])
    ELSE Returned(trad_interp, NoDiscrepancy)

\* the body of the loop of fuse_detections for one field: the fused value,
\* the discrepancy, whether a warning is logged, and the exception raised by
\* the call strategy_method(field_id, trad_interp, ml_interp, confidence_threshold)
FuseField(strategy_name, field_id, trad_interp, ml_blocks_response, confidence_threshold) ==
    LET ml_interp == find_ml_interpretation(field_id, ml_blocks_response)
        plain(r) == [fused |-> r.fused, discrepancy |-> r.discrepancy,
                     raised |-> r.raised, warned |-> FALSE]
    IN  IF ml_interp = NoMl
        THEN plain(Returned(trad_interp, NoDiscrepancy))
        ELSE IF strategy_name \notin DOMAIN FUSION_STRATEGIES
        THEN [fused |-> trad_interp, discrepancy |-> NoDiscrepancy,
              raised |-> "None", warned |-> TRUE]
        ELSE IF FUSION_STRATEGIES[strategy_name] = "_confidence_weighted_fusion"
        THEN plain(confidence_weighted_fusion(field_id, trad_interp, ml_interp,
                                              confidence_threshold))
        ELSE IF FUSION_STRATEGIES[strategy_name] = "_ml_fallback_fusion"
        THEN plain(ml_fallback_fusion(field_id, trad_interp, ml_interp,
                                      confidence_threshold))
        ELSE \* _traditional_primary_fusion takes three arguments, four are passed
             [fused |-> trad_interp, discrepancy |-> NoDiscrepancy,
              raised |-> "TypeError", warned |-> FALSE]

FieldOrder == <<"q1", "q2">>

\* DetectionFusion.fuse_detections: the fields of field_id_to_interpretation
\* are visited in order k, k + 1, ...; a raising strategy call ends the loop
RECURSIVE FuseLoop(_, _, _, _, _, _)
FuseLoop(strategy_name, interps, ml_blocks_response, confidence_threshold, k, acc) ==
    IF k > Len(FieldOrder) THEN acc
    ELSE IF FieldOrder[k] \notin DOMAIN interps
    THEN FuseLoop(strategy_name, interps, ml_blocks_response, confidence_threshold,
                  k + 1, acc)
    ELSE LET f == FieldOrder[k]
             r == FuseField(strategy_name, f, interps[f], ml_blocks_response,
                            confidence_threshold)
         IN  IF r.raised # "None"
             THEN [acc EXCEPT !.raised = r.raised]
             ELSE FuseLoop(strategy_name, interps, ml_blocks_response,
                           confidence_threshold, k + 1,
                           [fused_response |->
                                [g \in DOMAIN acc.fused_response \cup {f} |->
                                    IF g = f THEN r.fused ELSE acc.fused_response[g]],
                            discrepancies |->
                                IF r.discrepancy # NoDiscrepancy
                                THEN Append(acc.discrepancies, r.discrepancy)
                                ELSE acc.discrepancies,
                            warnings |-> acc.warnings + (IF r.warned THEN 1 ELSE 0),
                            raised |-> "None"])

fuse_detections(strategy_name, ml_blocks_response, interps, confidence_threshold) ==
    FuseLoop(strategy_name, interps, ml_blocks_response, confidence_threshold, 1,
             [fused_response |-> <<>>, discrepancies |-> <<>>, warnings |-> 0,
              raised |-> "None"])

\* inputs
BubbleSets == {<<"A">>, <<"B">>}
Confidences == {None, Some(Rat(5, 10)), Some(Rat(85, 100)), Some(Rat(9, 10)),
                Some(Rat(95, 100))}
TradInterps == {TradInterp(b, c) : b \in BubbleSets, c \in Confidences}
MlInterps == {MlInterp(b, c) : b \in BubbleSets, c \in Confidences}
ConfidenceThresholds == {Rat(85, 100), Rat(7, 10)}
StrategyNames == {"confidence_weighted", "ml_fallback", "traditional_primary",
                  "ml_only"}

NoCall == [method |-> "None"]

\* CONFIG_SCHEMA, ml.fusion_strategy: the names the "enum" accepts
fusion_strategy_enum ==
    {"confidence_weighted", "ml_fallback", "traditional_primary", "ml_only"}

\* DetectionFusion.__init__(fusion_strategy)
FuInit ==
    /\ fusion_strategy \in StrategyNames
    /\ fusion_call = NoCall
    /\ fusion_return = NoCall

FuIdle ==
    /\ fusion_strategy = "confidence_weighted"
    /\ fusion_call = NoCall
    /\ fusion_return = NoCall

\* the first call on the object: fusion.fuse_detections(_, ml_blocks_response, field_id_to_interpretation,
\* confidence_threshold); ml_blocks_response holds the ML detection of each field
FuseDetectionsCall ==
    /\ fusion_call = NoCall
    /\ \E F \in SUBSET {"q1", "q2"}, thr \in ConfidenceThresholds :
        \E interps \in [F -> TradInterps], ml \in [F -> MlInterps] :
            /\ fusion_call' = [method |-> "fuse_detections",
                               ml_blocks_response |-> ml,
                               field_id_to_interpretation |-> interps,
                               confidence_threshold |-> thr]
            /\ fusion_return' = fuse_detections(fusion_strategy, ml, interps, thr)
    /\ UNCHANGED fusion_strategy
    /\ UNCHANGED exceptFu

\* the first call on the object: fusion._confidence_weighted_fusion(field_id, trad_interp, ml_interp,
\* confidence_threshold)
ConfidenceWeightedFusionCall ==
    /\ fusion_call = NoCall
    /\ \E f \in {"q1", "q2"}, t \in TradInterps, m \in MlInterps,
          thr \in ConfidenceThresholds :
            /\ fusion_call' = [method |-> "_confidence_weighted_fusion",
                               field_id |-> f, trad_interp |-> t, ml_interp |-> m,
                               confidence_threshold |-> thr]
            /\ fusion_return' = confidence_weighted_fusion(f, t, m, thr)
    /\ UNCHANGED fusion_strategy
    /\ UNCHANGED exceptFu

FuNext == FuseDetectionsCall \/ ConfidenceWeightedFusionCall

----------------------------------------------------------------------------
(* DetectionRepository *)

\* a dict with no keys, and d[k] = v
EmptyDict == [k \in {} |-> "None"]
DictSet(d, k, v) == [x \in DOMAIN d \cup {k} |-> IF x = k THEN v ELSE d[x]]

\* FileDetectionResults(file_path=file_path)
FileDetectionResults(file_path) ==
    [file_path |-> file_path, bubble_fields |-> EmptyDict,
     ocr_fields |-> EmptyDict, barcode_fields |-> EmptyDict]

\* object references: heap[i] is the i-th FileDetectionResults object created,
\* NoObject is Python's None
NoObject == 0

\* a call that returns v, and a call that raises e
Ok(v) == [raised |-> "None", returned |-> v]
Raise(e) == [raised |-> e, returned |-> "None"]

\* DetectionRepository.__init__
DetectionRepository ==
    [current_file_results |-> NoObject, file_results |-> EmptyDict,
     directory_path |-> "None", heap |-> <<>>]

\* DetectionRepository.initialize_file
initialize_file(self, file_path) ==
    [self EXCEPT !.heap = Append(@, FileDetectionResults(file_path)),
                 !.current_file_results = Len(self.heap) + 1]

\* DetectionRepository.finalize_file
finalize_file(self) ==
    IF self.current_file_results # NoObject
    THEN [self EXCEPT !.file_results =
              DictSet(@, self.heap[self.current_file_results].file_path,
                      self.current_file_results)]
    ELSE self

\* DetectionRepository.get_current_file_results
get_current_file_results(self) ==
    IF self.current_file_results = NoObject
    THEN Raise("RuntimeError")
    ELSE Ok(self.current_file_results)

\* DetectionRepository.get_file_results
get_file_results(self, file_path) ==
    IF file_path \notin DOMAIN self.file_results
    THEN Raise("KeyError")
    ELSE Ok(self.file_results[file_path])

\* the repository after a call and the call's outcome
Effect(self, out) == [self |-> self, out |-> out]

\* DetectionRepository.save_bubble_field
save_bubble_field(self, field_id, result) ==
    LET current == get_current_file_results(self)
    IN  IF current.raised # "None" THEN Effect(self, current)
        ELSE Effect([self EXCEPT !.heap[current.returned].bubble_fields =
                         DictSet(@, field_id, result)], Ok("None"))

\* DetectionRepository.save_ocr_field
save_ocr_field(self, field_id, result) ==
    LET current == get_current_file_results(self)
    IN  IF current.raised # "None" THEN Effect(self, current)
        ELSE Effect([self EXCEPT !.heap[current.returned].ocr_fields =
                         DictSet(@, field_id, result)], Ok("None"))

\* DetectionRepository.save_barcode_field
save_barcode_field(self, field_id, result) ==
    LET current == get_current_file_results(self)
    IN  IF current.raised # "None" THEN Effect(self, current)
        ELSE Effect([self EXCEPT !.heap[current.returned].barcode_fields =
                         DictSet(@, field_id, result)], Ok("None"))

\* variant: a missing id yields None instead of raising (dict.get)
get_bubble_field_OrNone(self, field_id) ==
    LET current == get_current_file_results(self)
    IN  IF current.raised # "None" THEN current
        ELSE IF field_id \notin DOMAIN self.heap[current.returned].bubble_fields
        THEN Ok("None")
        ELSE Ok(self.heap[current.returned].bubble_fields[field_id])

\* DetectionRepository.get_bubble_field
get_bubble_field(self, field_id) ==
    LET current == get_current_file_results(self)
    IN  IF current.raised # "None" THEN current
        ELSE IF field_id \notin DOMAIN self.heap[current.returned].bubble_fields
        THEN Raise("KeyError")
        ELSE Ok(self.heap[current.returned].bubble_fields[field_id])

\* DetectionRepository.get_ocr_field
get_ocr_field(self, field_id) ==
    LET current == get_current_file_results(self)
    IN  IF current.raised # "None" THEN current
        ELSE IF field_id \notin DOMAIN self.heap[current.returned].ocr_fields
        THEN Raise("KeyError")
        ELSE Ok(self.heap[current.returned].ocr_fields[field_id])

\* DetectionRepository.get_barcode_field
get_barcode_field(self, field_id) ==
    LET current == get_current_file_results(self)
    IN  IF current.raised # "None" THEN current
        ELSE IF field_id \notin DOMAIN self.heap[current.returned].barcode_fields
        THEN Raise("KeyError")
        ELSE Ok(self.heap[current.returned].barcode_fields[field_id])

\* variant: the stored files survive a new directory
initialize_directory_KeepsFiles(self, directory_path) ==
    [self EXCEPT !.directory_path = directory_path,
                 !.current_file_results = NoObject]

\* DetectionRepository.initialize_directory
initialize_directory(self, directory_path) ==
    [self EXCEPT !.directory_path = directory_path,
                 !.file_results = EmptyDict,
                 !.current_file_results = NoObject]

\* DetectionRepository.get_all_file_results
get_all_file_results(self) == Ok(self.file_results)

\* DetectionRepository.clear
clear(self) ==
    [self EXCEPT !.current_file_results = NoObject,
                 !.file_results = EmptyDict,
                 !.directory_path = "None"]

\* DetectionRepository.get_total_files_processed
get_total_files_processed(self) == Ok(Cardinality(DOMAIN self.file_results))

\* inputs
Paths == {"a.jpg", "b.jpg"}
Directories == {"dir1"}
RepoFieldIds == {"q1", "q2"}
FieldResults == {"r1"}

Call(op, arg, out) == [op |-> op, arg |-> arg, raised |-> out.raised,
                       returned |-> out.returned]

ReInit ==
    /\ repo = DetectionRepository
    /\ repo_outcome = Call("__init__", <<>>, Ok("None"))
    /\ finalized_paths = {}
    /\ save_calls = 0

ReIdle == ReInit

InitializeFile ==
    /\ Len(repo.heap) < MaxFiles
    /\ \E file_path \in Paths :
        /\ repo' = initialize_file(repo, file_path)
        /\ repo_outcome' = Call("initialize_file", <<file_path>>, Ok("None"))
    /\ UNCHANGED <<finalized_paths, save_calls>>
    /\ UNCHANGED exceptRe

FinalizeFile ==
    /\ repo' = finalize_file(repo)
    /\ repo_outcome' = Call("finalize_file", <<>>, Ok("None"))
    /\ finalized_paths' =
          IF repo.current_file_results # NoObject
          THEN finalized_paths \cup {repo.heap[repo.current_file_results].file_path}
          ELSE finalized_paths
    /\ UNCHANGED save_calls
    /\ UNCHANGED exceptRe

GetCurrentFileResults ==
    /\ repo_outcome' = Call("get_current_file_results", <<>>,
                            get_current_file_results(repo))
    /\ UNCHANGED <<repo, finalized_paths, save_calls>>
    /\ UNCHANGED exceptRe

GetFileResults ==
    /\ \E file_path \in Paths :
        repo_outcome' = Call("get_file_results", <<file_path>>,
                             get_file_results(repo, file_path))
    /\ UNCHANGED <<repo, finalized_paths, save_calls>>
    /\ UNCHANGED exceptRe

SaveBubbleField ==
    /\ save_calls < MaxSaves
    /\ \E field_id \in RepoFieldIds, result \in FieldResults :
        LET e == save_bubble_field(repo, field_id, result)
        IN  /\ repo' = e.self
            /\ repo_outcome' = Call("save_bubble_field", <<field_id, result>>, e.out)
    /\ save_calls' = save_calls + 1
    /\ UNCHANGED finalized_paths
    /\ UNCHANGED exceptRe

SaveOcrField ==
    /\ save_calls < MaxSaves
    /\ \E field_id \in RepoFieldIds, result \in FieldResults :
        LET e == save_ocr_field(repo, field_id, result)
        IN  /\ repo' = e.self
            /\ repo_outcome' = Call("save_ocr_field", <<field_id, result>>, e.out)
    /\ save_calls' = save_calls + 1
    /\ UNCHANGED finalized_paths
    /\ UNCHANGED exceptRe

SaveBarcodeField ==
    /\ save_calls < MaxSaves
    /\ \E field_id \in RepoFieldIds, result \in FieldResults :
        LET e == save_barcode_field(repo, field_id, result)
        IN  /\ repo' = e.self
            /\ repo_outcome' = Call("save_barcode_field", <<field_id, result>>, e.out)
    /\ save_calls' = save_calls + 1
    /\ UNCHANGED finalized_paths
    /\ UNCHANGED exceptRe

GetBubbleField ==
    /\ \E field_id \in RepoFieldIds :
        repo_outcome' = Call("get_bubble_field", <<field_id>>,
                             get_bubble_field(repo, field_id))
    /\ UNCHANGED <<repo, finalized_paths, save_calls>>
    /\ UNCHANGED exceptRe

GetOcrField ==
    /\ \E field_id \in RepoFieldIds :
        repo_outcome' = Call("get_ocr_field", <<field_id>>,
                             get_ocr_field(repo, field_id))
    /\ UNCHANGED <<repo, finalized_paths, save_calls>>
    /\ UNCHANGED exceptRe

GetBarcodeField ==
    /\ \E field_id \in RepoFieldIds :
        repo_outcome' = Call("get_barcode_field", <<field_id>>,
                             get_barcode_field(repo, field_id))
    /\ UNCHANGED <<repo, finalized_paths, save_calls>>
    /\ UNCHANGED exceptRe

InitializeDirectory ==
    /\ \E directory_path \in Directories :
        /\ repo' = initialize_directory(repo, directory_path)
        /\ repo_outcome' = Call("initialize_directory", <<directory_path>>, Ok("None"))
    /\ finalized_paths' = {}
    /\ UNCHANGED save_calls
    /\ UNCHANGED exceptRe

GetAllFileResults ==
    /\ repo_outcome' = Call("get_all_file_results", <<>>, get_all_file_results(repo))
    /\ UNCHANGED <<repo, finalized_paths, save_calls>>
    /\ UNCHANGED exceptRe

Clear ==
    /\ repo' = clear(repo)
    /\ repo_outcome' = Call("clear", <<>>, Ok("None"))
    /\ finalized_paths' = {}
    /\ UNCHANGED save_calls
    /\ UNCHANGED exceptRe

GetTotalFilesProcessed ==
    /\ repo_outcome' = Call("get_total_files_processed", <<>>,
                            get_total_files_processed(repo))
    /\ UNCHANGED <<repo, finalized_paths, save_calls>>
    /\ UNCHANGED exceptRe

ReNext ==
    \/ InitializeFile
    \/ FinalizeFile
    \/ GetCurrentFileResults
    \/ GetFileResults
    \/ SaveBubbleField
    \/ SaveOcrField
    \/ SaveBarcodeField
    \/ GetBubbleField
    \/ GetOcrField
    \/ GetBarcodeField
    \/ InitializeDirectory
    \/ GetAllFileResults
    \/ Clear
    \/ GetTotalFilesProcessed

----------------------------------------------------------------------------
(* ProcessingPipeline *)

\* a processor object: what get_name() returns, and which object it is
Processor(name, id) == [name |-> name, id |-> id]

\* ProcessingPipeline.__init__: field_block says use_field_block_detection and
\* field_block_model_path are set, shift says shift detection is enabled,
\* collect says collect_training_data is set, importable says the import in
\* _add_training_data_collector succeeds
ProcessingPipeline(field_block, shift, collect, importable) ==
    <<Processor("Preprocessing", 0), Processor("Alignment", 0)>>
    \o (IF field_block
        THEN <<Processor("MLFieldBlockDetector", 0)>>
             \o (IF shift THEN <<Processor("ShiftDetection", 0)>> ELSE <<>>)
        ELSE <<>>)
    \o <<Processor("ReadOMR", 0)>>
    \o (IF collect /\ importable
        THEN <<Processor("TrainingDataCollector", 0)>>
        ELSE <<>>)

\* Template.finish_processing_directory: "self.pipeline.processors[-1]", the
\* processor the call is delegated to
finish_processing_directory(procs) == procs[Len(procs)]

\* ProcessingContext(file_path=file_path, ...); metadata lists the stages
\* that have worked on the context
ProcessingContext(file_path) == [file_path |-> file_path, metadata |-> <<>>]

\* processor.process(context) of a stage that returns
Process(processor, context) ==
    [context EXCEPT !.metadata = Append(@, processor)]

NoException == [type |-> "None", origin |-> 0]
NoContext == [file_path |-> "None", metadata |-> <<>>]

\* the loop of process_file from stage k on: the stages in raising raise an
\* exception of type exc_type when called; calls lists the process() calls made
RECURSIVE RunProcessors(_, _, _, _, _, _)
RunProcessors(procs, k, context, raising, exc_type, calls) ==
    IF k > Len(procs)
    THEN [raised |-> NoException, returned |-> context, calls |-> calls]
    ELSE LET call == [processor |-> procs[k], context |-> context]
         IN  IF k \in raising
             THEN [raised |-> [type |-> exc_type, origin |-> k],
                   returned |-> NoContext, calls |-> Append(calls, call)]
             ELSE RunProcessors(procs, k + 1, Process(procs[k], context), raising,
                                exc_type, Append(calls, call))

\* variant: the caller gets a new exception in place of the stage's
process_file_WrapsException(self_processors, file_path, raising, exc_type) ==
    LET r == RunProcessors(self_processors, 1, ProcessingContext(file_path),
                           raising, exc_type, <<>>)
    IN  IF r.raised # NoException
        THEN [r EXCEPT !.raised = [type |-> "PipelineError", origin |-> 0]]
        ELSE r

\* ProcessingPipeline.process_file
process_file(self_processors, file_path, raising, exc_type) ==
    RunProcessors(self_processors, 1, ProcessingContext(file_path), raising,
                  exc_type, <<>>)

\* ProcessingPipeline.add_processor
add_processor(self_processors, processor) == Append(self_processors, processor)

\* variant: only the first stage of that name is removed
remove_processor_FirstOnly(self_processors, processor_name) ==
    LET matches == {i \in 1..Len(self_processors) :
                       self_processors[i].name = processor_name}
    IN  IF matches = {} THEN self_processors
        ELSE LET k == CHOOSE i \in matches : \A j \in matches : i <= j
             IN  SubSeq(self_processors, 1, k - 1)
                 \o SubSeq(self_processors, k + 1, Len(self_processors))

\* ProcessingPipeline.remove_processor
remove_processor(self_processors, processor_name) ==
    SelectSeq(self_processors, LAMBDA p : p.name # processor_name)

\* ProcessingPipeline.get_processor_names
get_processor_names(self_processors) ==
    [i \in 1..Len(self_processors) |-> self_processors[i].name]

\* inputs
ProcessorNames ==
    {"Preprocessing", "Alignment", "MLFieldBlockDetector", "ShiftDetection",
     "ReadOMR", "TrainingDataCollector", "Evaluation"}
CustomProcessors == {Processor("ReadOMR", 1), Processor("Evaluation", 1)}
ExceptionTypes == {"ValueError", "OMRCheckerError"}
\* which of n stages raise when called: none, one or two of them
RaisingStages(n) == {{a, b} \ {0} : a \in 0..n, b \in 0..n}

PiInit ==
    /\ \E field_block \in BOOLEAN, shift \in BOOLEAN, collect \in BOOLEAN,
          importable \in BOOLEAN :
            processors = ProcessingPipeline(field_block, shift, collect, importable)
    /\ pipeline_call = [op |-> "__init__"]
    /\ pipeline_return = [op |-> "__init__"]
    /\ add_calls = 0

PiIdle ==
    /\ processors = ProcessingPipeline(FALSE, FALSE, FALSE, FALSE)
    /\ pipeline_call = [op |-> "__init__"]
    /\ pipeline_return = [op |-> "__init__"]
    /\ add_calls = 0

ProcessFile ==
    /\ \E file_path \in {"a.jpg"}, exc_type \in ExceptionTypes,
          raising \in RaisingStages(Len(processors)) :
            /\ pipeline_call' = [op |-> "process_file", file_path |-> file_path,
                                 raising |-> raising, exc_type |-> exc_type,
                                 before |-> processors]
            /\ pipeline_return' = process_file(processors, file_path, raising, exc_type)
    /\ UNCHANGED <<processors, add_calls>>
    /\ UNCHANGED exceptPi

AddProcessor ==
    /\ add_calls < MaxAdds
    /\ \E processor \in CustomProcessors :
        /\ processors' = add_processor(processors, processor)
        /\ pipeline_call' = [op |-> "add_processor", processor |-> processor,
                             before |-> processors]
    /\ pipeline_return' = [op |-> "add_processor"]
    /\ add_calls' = add_calls + 1
    /\ UNCHANGED exceptPi

RemoveProcessor ==
    /\ \E processor_name \in ProcessorNames :
        /\ processors' = remove_processor(processors, processor_name)
        /\ pipeline_call' = [op |-> "remove_processor",
                             processor_name |-> processor_name,
                             before |-> processors]
    /\ pipeline_return' = [op |-> "remove_processor"]
    /\ UNCHANGED add_calls
    /\ UNCHANGED exceptPi

GetProcessorNames ==
    /\ pipeline_call' = [op |-> "get_processor_names", before |-> processors]
    /\ pipeline_return' = [op |-> "get_processor_names",
                           returned |-> get_processor_names(processors)]
    /\ UNCHANGED <<processors, add_calls>>
    /\ UNCHANGED exceptPi

PiNext == ProcessFile \/ AddProcessor \/ RemoveProcessor \/ GetProcessorNames

----------------------------------------------------------------------------
(* Configuration validation *)

\* JSON values: a number n/d, a string, a boolean, or a key that is absent
JNumber(n, d) == [type |-> "number", v |-> Rat(n, d)]
JString == [type |-> "string", v |-> RInt(0)]
JBoolean == [type |-> "boolean", v |-> RInt(0)]
Absent == [type |-> "absent", v |-> RInt(0)]

\* a JSON object with one optional key, a JSON string in its place, or no value
JObject(value) == [type |-> "object", value |-> value]
NotAnObject == [type |-> "string", value |-> Absent]
NoObjectKey == [type |-> "absent", value |-> Absent]

\* JSON Schema keywords (draft 2020-12), each true when the instance passes
TypeInteger(x) == x.type = "number" /\ x.v.d = 1
Minimum(x, m) == x.type = "number" => RLe(RInt(m), x.v)
Maximum(x, m) == x.type = "number" => RLe(x.v, RInt(m))
ExclusiveMinimum(x, m) == x.type = "number" => RLt(RInt(m), x.v)
Const(x, c) == x.type = "number" /\ x.v = RInt(c)

\* "properties": {key: schema} constrains obj only when obj is an object that
\* has the key
HasKey(obj) == obj.type = "object" /\ obj.value.type # "absent"

\* properties.outputs.properties.show_image_level and
\* properties.processing.properties.max_parallel_workers of the first allOf member
show_image_level_schema(x) == TypeInteger(x) /\ Minimum(x, 0) /\ Maximum(x, 6)
max_parallel_workers_schema(x) == TypeInteger(x) /\ Minimum(x, 1) /\ Maximum(x, 16)

PropertiesSchema(data) ==
    /\ data.outputs.type \in {"absent", "object"}
    /\ HasKey(data.outputs) => show_image_level_schema(data.outputs.value)
    /\ data.processing.type \in {"absent", "object"}
    /\ HasKey(data.processing) => max_parallel_workers_schema(data.processing.value)

\* the "if" of the second allOf member
if_show_image_level(x) == TypeInteger(x) /\ ExclusiveMinimum(x, 0)
IfSchema(data) == HasKey(data.outputs) => if_show_image_level(data.outputs.value)

\* variant: the "then" puts no constraint on max_parallel_workers
then_max_parallel_workers_Any(x) == TRUE

\* the "then" of the second allOf member
then_max_parallel_workers(x) == Const(x, 1)
ThenSchema(data) ==
    HasKey(data.processing) => then_max_parallel_workers(data.processing.value)

\* CONFIG_SCHEMA: allOf [properties, if/then]
CONFIG_SCHEMA(data) ==
    /\ PropertiesSchema(data)
    /\ IfSchema(data) => ThenSchema(data)

\* the branch of validate_config_json that builds the custom message: it is
\* taken for the error of "const"; json_data.get("outputs", {}).get(...) raises
\* AttributeError when outputs is not an object
ConstError(data) == IfSchema(data) /\ ~ThenSchema(data)
CustomMessageTest(data) ==
    IF data.outputs.type = "string" THEN "AttributeError"
    ELSE IF data.outputs.type = "object"
            /\ data.outputs.value.type = "number"
            /\ RLt(RInt(0), data.outputs.value.v)
    THEN "custom"
    ELSE IF data.outputs.type = "object" /\ data.outputs.value.type = "string"
    THEN "TypeError"
    ELSE "generic"

\* validate_config_json
validate_config_json(data) ==
    IF CONFIG_SCHEMA(data)
    THEN [raised |-> "None", custom_message |-> FALSE]
    ELSE IF ConstError(data) /\ CustomMessageTest(data) \in {"AttributeError", "TypeError"}
    THEN [raised |-> CustomMessageTest(data), custom_message |-> FALSE]
    ELSE [raised |-> "ConfigValidationError",
          custom_message |-> ConstError(data) /\ CustomMessageTest(data) = "custom"]

\* OutputsConfig.show_image_level and ProcessingConfig.max_parallel_workers of
\* Config.from_dict(data): the value given, else the dataclass default
EffectiveShowImageLevel(data) ==
    IF HasKey(data.outputs) THEN data.outputs.value ELSE JNumber(0, 1)
EffectiveMaxParallelWorkers(data) ==
    IF HasKey(data.processing) THEN data.processing.value ELSE JNumber(1, 1)

\* inputs
ShowImageLevels ==
    {Absent, JString, JBoolean, JNumber(3, 2), JNumber(-1, 1), JNumber(0, 1),
     JNumber(1, 1), JNumber(2, 1), JNumber(6, 1), JNumber(7, 1)}
MaxParallelWorkers ==
    {Absent, JString, JNumber(3, 2), JNumber(0, 1), JNumber(1, 1), JNumber(2, 1),
     JNumber(16, 1), JNumber(17, 1)}
NotValidated == [raised |-> "NotCalled", custom_message |-> FALSE]

CfInit ==
    /\ json_data \in
         [outputs : {NoObjectKey, NotAnObject} \cup {JObject(x) : x \in ShowImageLevels},
          processing : {NoObjectKey, NotAnObject}
                       \cup {JObject(x) : x \in MaxParallelWorkers}]
    /\ validation = NotValidated

CfIdle ==
    /\ json_data = [outputs |-> NoObjectKey, processing |-> NoObjectKey]
    /\ validation = NotValidated

ValidateConfigJson ==
    /\ validation = NotValidated
    /\ validation' = validate_config_json(json_data)
    /\ UNCHANGED json_data
    /\ UNCHANGED exceptCf

CfNext == ValidateConfigJson

----------------------------------------------------------------------------
(* Worker tasks that share one ShiftDetectionProcessor *)

\* the worker pool: each worker runs the pipeline of one file, all on the
\* same processor object
Workers == {"w1", "w2"}

\* the order of ml_alignments.items()
BlockOrder == <<"MCQBlock1a1", "MCQBlock1a2", "Booklet_No">>

\* a task about to enter _validate_shifts(alignments); mismatches is the
\* number of fields that _compare_and_adjust_confidence will find different,
\* compared the number of them handled so far
Task(alignments, mismatches) ==
    [alignments |-> alignments,
     pending |-> SelectSeq(BlockOrder, LAMBDA b : b \in DOMAIN alignments),
     mismatches |-> mismatches, compared |-> 0, pc |-> "validate", loaded |-> 0]

DoneTask == [Task(<<>>, 0) EXCEPT !.pc = "done"]

\* the counter that the loop body of _validate_shifts increments for a block
CounterOf(cfg, task) ==
    IF ShiftAccepted(cfg, Head(task.pending), task.alignments[Head(task.pending)])
    THEN "shifts_applied" ELSE "shifts_rejected"

TaskInputs ==
    {Task(a, k) : a \in {x \in Alignments : Cardinality(DOMAIN x) <= 1}, k \in 0..1}

CoInit ==
    /\ shift_config \in ShiftConfigs
    /\ stats = [shifts_applied |-> 0, shifts_rejected |-> 0,
                mismatches_detected |-> 0, confidence_reductions |-> <<>>]
    /\ ml_alignments = <<>>
    /\ validated = <<>>
    /\ validate_calls = 0
    /\ tasks \in [Workers -> TaskInputs]

CoIdle == tasks = [w \in Workers |-> DoneTask]

\* self.stats[key] += 1, first half: the value of the counter is read
LoadShiftCounter(w) ==
    /\ tasks[w].pc = "validate"
    /\ tasks[w].pending # <<>>
    /\ LET key == CounterOf(shift_config, tasks[w])
       IN  tasks' = [tasks EXCEPT ![w].loaded = stats[key],
                                  ![w].pc = "store_" \o key]
    /\ UNCHANGED <<shift_config, stats, ml_alignments, validated, validate_calls>>
    /\ UNCHANGED exceptCo

\* self.stats[key] += 1, second half: the value read plus one is stored
StoreShiftCounter(w) ==
    /\ tasks[w].pc \in {"store_shifts_applied", "store_shifts_rejected"}
    /\ stats' = IF tasks[w].pc = "store_shifts_applied"
                THEN [stats EXCEPT !.shifts_applied = tasks[w].loaded + 1]
                ELSE [stats EXCEPT !.shifts_rejected = tasks[w].loaded + 1]
    /\ tasks' = [tasks EXCEPT ![w].pending = Tail(@), ![w].pc = "validate"]
    /\ UNCHANGED <<shift_config, ml_alignments, validated, validate_calls>>
    /\ UNCHANGED exceptCo

\* _validate_shifts returns; process() returns early when nothing was
\* validated, else goes on to _compare_and_adjust_confidence
ReturnValidated(w) ==
    /\ tasks[w].pc = "validate"
    /\ tasks[w].pending = <<>>
    /\ tasks' = [tasks EXCEPT ![w].pc =
                    IF DOMAIN ValidateShifts(shift_config, tasks[w].alignments) = {}
                    THEN "done" ELSE "compare"]
    /\ UNCHANGED <<shift_config, stats, ml_alignments, validated, validate_calls>>
    /\ UNCHANGED exceptCo

\* self.stats["mismatches_detected"] += 1, first half
LoadMismatchCounter(w) ==
    /\ tasks[w].pc = "compare"
    /\ tasks[w].compared < tasks[w].mismatches
    /\ tasks' = [tasks EXCEPT ![w].loaded = stats.mismatches_detected,
                              ![w].pc = "store_mismatches_detected"]
    /\ UNCHANGED <<shift_config, stats, ml_alignments, validated, validate_calls>>
    /\ UNCHANGED exceptCo

\* self.stats["mismatches_detected"] += 1, second half
StoreMismatchCounter(w) ==
    /\ tasks[w].pc = "store_mismatches_detected"
    /\ stats' = [stats EXCEPT !.mismatches_detected = tasks[w].loaded + 1]
    /\ tasks' = [tasks EXCEPT ![w].pc = "append"]
    /\ UNCHANGED <<shift_config, ml_alignments, validated, validate_calls>>
    /\ UNCHANGED exceptCo

\* self.stats["confidence_reductions"].append(reduction): one list operation;
\* the reduction of a field of w's file is written w
AppendReduction(w) ==
    /\ tasks[w].pc = "append"
    /\ stats' = [stats EXCEPT !.confidence_reductions = Append(@, w)]
    /\ tasks' = [tasks EXCEPT ![w].compared = @ + 1, ![w].pc = "compare"]
    /\ UNCHANGED <<shift_config, ml_alignments, validated, validate_calls>>
    /\ UNCHANGED exceptCo

\* _compare_and_adjust_confidence returns and process() ends
ReturnCompared(w) ==
    /\ tasks[w].pc = "compare"
    /\ tasks[w].compared = tasks[w].mismatches
    /\ tasks' = [tasks EXCEPT ![w].pc = "done"]
    /\ UNCHANGED <<shift_config, stats, ml_alignments, validated, validate_calls>>
    /\ UNCHANGED exceptCo

CoNext ==
    \/ \E w \in Workers : LoadShiftCounter(w)
    \/ \E w \in Workers : StoreShiftCounter(w)
    \/ \E w \in Workers : ReturnValidated(w)
    \/ \E w \in Workers : LoadMismatchCounter(w)
    \/ \E w \in Workers : StoreMismatchCounter(w)
    \/ \E w \in Workers : AppendReduction(w)
    \/ \E w \in Workers : ReturnCompared(w)

----------------------------------------------------------------------------
(* ShiftDetectionProcessor.process: shifted pass, baseline pass, comparison *)

\* FieldBlock.reset_all_shifts
reset_all_shifts(block) == <<0, 0>>

\* one entry of results["interpretations"]: bubble_values, response and,
\* when the key exists, confidence
InterpDict(bubble_values, response, confidence) ==
    [bubble_values |-> bubble_values, response |-> response,
     confidence |-> confidence]

\* ShiftDetectionProcessor._compare_bubbles: the positions that differ
compare_bubbles(shifted, baseline) ==
    {i \in 1..Len(shifted.bubble_values) :
        shifted.bubble_values[i] # baseline.bubble_values[i]}

\* ShiftDetectionProcessor._compare_field_responses: a difference was found
compare_field_responses(shifted, baseline) == shifted.response # baseline.response

\* variant: the reduction is always the configured maximum
calculate_confidence_reduction_Max(cfg, severity) == cfg.confidence_reduction_max

\* ShiftDetectionProcessor._calculate_confidence_reduction
calculate_confidence_reduction(cfg, severity) ==
    RAdd(cfg.confidence_reduction_min,
         RMul(severity,
              RAdd(cfg.confidence_reduction_max,
                   RMul(RInt(-1), cfg.confidence_reduction_min))))

NoReduction == [original |-> RInt(0), reduction |-> RInt(0), final |-> RInt(0),
                reason |-> "None"]

\* the body of the loop of _compare_and_adjust_confidence for one field that
\* has a baseline interpretation; zip(..., strict=True) raises ValueError on
\* lists of different lengths
CompareField(cfg, shifted_interp, baseline_interp) ==
    IF Len(shifted_interp.bubble_values) # Len(baseline_interp.bubble_values)
    THEN [raised |-> "ValueError", interp |-> shifted_interp, entry |-> NoReduction,
          bubble_diffs |-> 0, field_diff |-> FALSE]
    ELSE
    LET bubble_diffs == compare_bubbles(shifted_interp, baseline_interp)
        field_diff == compare_field_responses(shifted_interp, baseline_interp)
        total_bubbles == Len(shifted_interp.bubble_values)
        severity == IF total_bubbles > 0
                    THEN Rat(Cardinality(bubble_diffs), total_bubbles)
                    ELSE RInt(0)
    IN  IF bubble_diffs # {} \/ field_diff
        THEN LET reduction == calculate_confidence_reduction(cfg, severity)
                 original_conf == IF shifted_interp.confidence.some
                                  THEN shifted_interp.confidence.v
                                  ELSE RInt(1)
                 adjusted_conf ==
                     RMax(RInt(0), RAdd(original_conf, RMul(RInt(-1), reduction)))
             IN  [raised |-> "None",
                  interp |-> [shifted_interp EXCEPT !.confidence = Some(adjusted_conf)],
                  entry |-> [original |-> original_conf, reduction |-> reduction,
                             final |-> adjusted_conf, reason |-> "shift_mismatch"],
                  bubble_diffs |-> Cardinality(bubble_diffs),
                  field_diff |-> field_diff]
        ELSE [raised |-> "None", interp |-> shifted_interp, entry |-> NoReduction,
              bubble_diffs |-> 0, field_diff |-> FALSE]

\* "for field_id in shifted_interpretations": the fields in dictionary order
RECURSIVE CompareLoop(_, _, _, _, _)
CompareLoop(cfg, shifted, baseline, k, acc) ==
    IF k > Len(FieldOrder) THEN acc
    ELSE LET f == FieldOrder[k]
         IN  IF f \notin DOMAIN shifted \/ f \notin DOMAIN baseline
             THEN CompareLoop(cfg, shifted, baseline, k + 1, acc)
             ELSE LET r == CompareField(cfg, shifted[f], baseline[f])
                  IN  IF r.raised # "None" THEN [acc EXCEPT !.raised = r.raised]
                      ELSE CompareLoop(cfg, shifted, baseline, k + 1,
                           [raised |-> "None",
                            interpretations |->
                                [acc.interpretations EXCEPT ![f] = r.interp],
                            bubble_mismatches |->
                                IF r.bubble_diffs > 0
                                THEN Append(acc.bubble_mismatches,
                                            [field_id |-> f, count |-> r.bubble_diffs])
                                ELSE acc.bubble_mismatches,
                            field_mismatches |->
                                IF r.field_diff
                                THEN Append(acc.field_mismatches, f)
                                ELSE acc.field_mismatches,
                            confidence_reductions |->
                                IF r.entry # NoReduction
                                THEN [g \in DOMAIN acc.confidence_reductions \cup {f} |->
                                        IF g = f THEN r.entry
                                        ELSE acc.confidence_reductions[g]]
                                ELSE acc.confidence_reductions,
                            stats |->
                                IF r.entry # NoReduction
                                THEN [acc.stats EXCEPT
                                        !.mismatches_detected = @ + 1,
                                        !.confidence_reductions =
                                            Append(@, r.entry.reduction)]
                                ELSE acc.stats])

\* ShiftDetectionProcessor._compare_and_adjust_confidence: the shifted
\* interpretations are adjusted in place and returned with the comparison
compare_and_adjust_confidence(cfg, st, shifted, baseline) ==
    CompareLoop(cfg, shifted, baseline, 1,
                [raised |-> "None", interpretations |-> shifted,
                 bubble_mismatches |-> <<>>, field_mismatches |-> <<>>,
                 confidence_reductions |-> <<>>, stats |-> st])

\* the loop of _run_detection_with_shifts that applies the validated shifts:
\* _find_block_by_name finds the blocks of the template only
ApplyShifts(blocks, shifts) ==
    [b \in DOMAIN blocks |->
        IF b \in DOMAIN shifts THEN <<shifts[b].dx, shifts[b].dy>> ELSE blocks[b]]

\* the loop "for block in self.template.field_blocks: block.reset_all_shifts()"
ResetShifts(blocks) == [b \in DOMAIN blocks |-> reset_all_shifts(blocks[b])]

\* what one detection pass does: it returns its results or raises
Detected(interpretations) == [raised |-> "None", interpretations |-> interpretations]
DetectionRaises == [raised |-> "ImageProcessingError", interpretations |-> <<>>]

ProcessOutcome(raised, changed, interpretations, comparison, passes, blocks, st, validated_shifts) ==
    [raised |-> raised, changed |-> changed, interpretations |-> interpretations,
     comparison |-> comparison, passes |-> passes, blocks |-> blocks, stats |-> st,
     validated |-> validated_shifts]

NoComparison == [bubble_mismatches |-> <<>>, field_mismatches |-> <<>>,
                 confidence_reductions |-> <<>>]

\* ShiftDetectionProcessor.process: passes lists the block shifts each
\* detection pass ran with, blocks the shifts left on the template
process(cfg, st, blocks, alignments, shifted_pass, baseline_pass) ==
    IF alignments = <<>> \/ ~cfg.enabled
    THEN ProcessOutcome("None", FALSE, <<>>, NoComparison, <<>>, blocks, st, <<>>)
    ELSE
    LET validated_shifts == ValidateShifts(cfg, alignments)
        accepted == Cardinality(DOMAIN validated_shifts)
        st1 == [st EXCEPT !.shifts_applied = @ + accepted,
                          !.shifts_rejected =
                              @ + Cardinality(DOMAIN alignments) - accepted]
        shifted_blocks == ApplyShifts(blocks, validated_shifts)
    IN  IF validated_shifts = <<>>
        THEN ProcessOutcome("None", FALSE, <<>>, NoComparison, <<>>, blocks, st1, <<>>)
        ELSE IF shifted_pass.raised # "None"
        THEN ProcessOutcome(shifted_pass.raised, FALSE, <<>>, NoComparison,
                            <<shifted_blocks>>, shifted_blocks, st1, validated_shifts)
        ELSE LET reset_blocks == ResetShifts(shifted_blocks)
                 passes == <<shifted_blocks, reset_blocks>>
             IN  IF baseline_pass.raised # "None"
                 THEN ProcessOutcome(baseline_pass.raised, FALSE, <<>>, NoComparison,
                                     passes, reset_blocks, st1, validated_shifts)
                 ELSE LET c == compare_and_adjust_confidence(
                                   cfg, st1, shifted_pass.interpretations,
                                   baseline_pass.interpretations)
                      IN  ProcessOutcome(c.raised, c.raised = "None",
                                         c.interpretations,
                                         [bubble_mismatches |-> c.bubble_mismatches,
                                          field_mismatches |-> c.field_mismatches,
                                          confidence_reductions |->
                                              c.confidence_reductions],
                                         passes, reset_blocks, c.stats,
                                         validated_shifts)

\* inputs
BubbleStates == {<<>>, <<1, 0>>, <<0, 1>>}
ShiftedInterps ==
    {InterpDict(bv, r, c) : bv \in BubbleStates, r \in {"A", "B"},
                            c \in {None, Some(Rat(3, 10)), Some(Rat(9, 10))}}
BaselineInterps == {InterpDict(bv, r, None) : bv \in BubbleStates, r \in {"A", "B"}}

\* the two result sets of one file come from the same template, so a field
\* has as many bubbles in one as in the other
SameTemplate(shifted, baseline) ==
    \A f \in DOMAIN shifted \cap DOMAIN baseline :
        Len(shifted[f].bubble_values) = Len(baseline[f].bubble_values)

ResultPairs(Fields) ==
    {p \in (UNION {[F -> ShiftedInterps] : F \in SUBSET Fields})
           \X (UNION {[G -> BaselineInterps] : G \in SUBSET Fields}) :
        SameTemplate(p[1], p[2])}

ProcessConfigs ==
    {[enabled |-> e, global_max_shift_pixels |-> g,
      per_block_max_shift_pixels |-> <<>>,
      confidence_reduction_min |-> Rat(1, 10),
      confidence_reduction_max |-> Rat(5, 10)] :
        e \in BOOLEAN, g \in {5, 30}}

\* the field blocks of the template: MCQBlock1a2 is not one of them
TemplateBlocks == {"MCQBlock1a1", "Booklet_No"}

NoShiftCall == [method |-> "None"]

\* ShiftDetectionProcessor.__init__(template, shift_config)
SpInit ==
    /\ shift_config \in ProcessConfigs
    /\ stats = [shifts_applied |-> 0, shifts_rejected |-> 0,
                mismatches_detected |-> 0, confidence_reductions |-> <<>>]
    /\ ml_alignments = <<>>
    /\ validated = <<>>
    /\ validate_calls = 0
    /\ template_field_blocks = [b \in TemplateBlocks |-> <<0, 0>>]
    /\ shift_call = NoShiftCall
    /\ shift_return = NoShiftCall

SpIdle ==
    /\ template_field_blocks = [b \in TemplateBlocks |-> <<0, 0>>]
    /\ shift_call = NoShiftCall
    /\ shift_return = NoShiftCall

\* the first call on the processor:
\* processor._compare_and_adjust_confidence(shifted_results, baseline_results, shifts)
CompareAndAdjustConfidenceCall ==
    /\ shift_call = NoShiftCall
    /\ \E p \in ResultPairs({"q1", "q2"}) :
        LET c == compare_and_adjust_confidence(shift_config, stats, p[1], p[2])
        IN  /\ shift_call' = [method |-> "_compare_and_adjust_confidence",
                              shifted |-> p[1], baseline |-> p[2],
                              stats |-> stats]
            /\ shift_return' = c
            /\ stats' = c.stats
    /\ UNCHANGED <<shift_config, ml_alignments, validated, validate_calls,
                   template_field_blocks>>
    /\ UNCHANGED exceptSp

\* the first call on the processor: processor.process(context), with the
\* proposals of context.metadata and what the two detection passes do
ProcessCall ==
    /\ shift_call = NoShiftCall
    /\ \E alignments \in {a \in Alignments : Cardinality(DOMAIN a) <= 1},
          p \in ResultPairs({"q1"}),
          shifted_raises \in BOOLEAN, baseline_raises \in BOOLEAN :
        LET r == process(shift_config, stats, template_field_blocks, alignments,
                         IF shifted_raises THEN DetectionRaises ELSE Detected(p[1]),
                         IF baseline_raises THEN DetectionRaises ELSE Detected(p[2]))
        IN  /\ shift_call' = [method |-> "process", ml_alignments |-> alignments,
                              shifted |-> p[1], baseline |-> p[2],
                              shifted_raises |-> shifted_raises,
                              baseline_raises |-> baseline_raises,
                              blocks |-> template_field_blocks, stats |-> stats]
            /\ shift_return' = r
            /\ stats' = r.stats
            /\ template_field_blocks' = r.blocks
            /\ ml_alignments' = alignments
            /\ validated' = r.validated
    /\ UNCHANGED <<shift_config, validate_calls>>
    /\ UNCHANGED exceptSp

SpNext == CompareAndAdjustConfidenceCall \/ ProcessCall

----------------------------------------------------------------------------
(* Detection passes of several files on one DetectionRepository *)

\* the detection result a file's pass computes for one of its fields
FieldDetectionResult(file_path, field_id) == <<file_path, field_id>>

DpInit ==
    /\ file_tasks = [file_path \in Paths |-> "start"]
    /\ saved_by = {}

DpIdle == DpInit

\* BubblesThresholdDetectionPass.initialize_file_level_aggregates
InitializeFileLevelAggregates(file_path) ==
    /\ file_tasks[file_path] = "start"
    /\ repo' = initialize_file(repo, file_path)
    /\ file_tasks' = [file_tasks EXCEPT ![file_path] = "detecting"]
    /\ UNCHANGED <<saved_by, repo_outcome, finalized_paths, save_calls>>
    /\ UNCHANGED exceptDp

\* BubblesThresholdDetectionPass.update_field_level_aggregates_on_processed_field_detection
UpdateFieldLevelAggregatesOnProcessedFieldDetection(file_path, field_id) ==
    /\ file_tasks[file_path] = "detecting"
    /\ \A s \in saved_by : ~(s.file_path = file_path /\ s.field_id = field_id)
    /\ LET result == FieldDetectionResult(file_path, field_id)
           e == save_bubble_field(repo, field_id, result)
       IN  /\ repo' = e.self
           /\ saved_by' = saved_by \cup
                  {[file_path |-> file_path, field_id |-> field_id, result |-> result]}
    /\ UNCHANGED <<file_tasks, repo_outcome, finalized_paths, save_calls>>
    /\ UNCHANGED exceptDp

\* the file's task stores its results once its pipeline has succeeded
FinalizeFileTask(file_path) ==
    /\ file_tasks[file_path] = "detecting"
    /\ repo' = finalize_file(repo)
    /\ file_tasks' = [file_tasks EXCEPT ![file_path] = "finalized"]
    /\ UNCHANGED <<saved_by, repo_outcome, finalized_paths, save_calls>>
    /\ UNCHANGED exceptDp

DpNext ==
    \E file_path \in Paths :
        \/ InitializeFileLevelAggregates(file_path)
        \/ \E field_id \in RepoFieldIds :
               UpdateFieldLevelAggregatesOnProcessedFieldDetection(file_path, field_id)
        \/ FinalizeFileTask(file_path)

----------------------------------------------------------------------------
(* Specifications *)

InitThreshold == ThInit /\ InIdle /\ ShIdle /\ FuIdle /\ ReIdle /\ PiIdle /\ CfIdle /\ CoIdle /\ SpIdle /\ DpIdle
SpecThreshold == InitThreshold /\ [][ThNext]_vars

InitInterpretation == ThIdle /\ InInit /\ ShIdle /\ FuIdle /\ ReIdle /\ PiIdle /\ CfIdle /\ CoIdle /\ SpIdle /\ DpIdle
SpecInterpretation == InitInterpretation /\ [][InNext]_vars

InitShift == ThIdle /\ InIdle /\ ShInit /\ FuIdle /\ ReIdle /\ PiIdle /\ CfIdle /\ CoIdle /\ SpIdle /\ DpIdle
SpecShift == InitShift /\ [][ShNext]_vars

InitFusion == ThIdle /\ InIdle /\ ShIdle /\ FuInit /\ ReIdle /\ PiIdle /\ CfIdle /\ CoIdle /\ SpIdle /\ DpIdle
SpecFusion == InitFusion /\ [][FuNext]_vars

InitRepository == ThIdle /\ InIdle /\ ShIdle /\ FuIdle /\ ReInit /\ PiIdle /\ CfIdle /\ CoIdle /\ SpIdle /\ DpIdle
SpecRepository == InitRepository /\ [][ReNext]_vars

InitPipeline == ThIdle /\ InIdle /\ ShIdle /\ FuIdle /\ ReIdle /\ PiInit /\ CfIdle /\ CoIdle /\ SpIdle /\ DpIdle
SpecPipeline == InitPipeline /\ [][PiNext]_vars

InitConfig == ThIdle /\ InIdle /\ ShIdle /\ FuIdle /\ ReIdle /\ PiIdle /\ CfInit /\ CoIdle /\ SpIdle /\ DpIdle
SpecConfig == InitConfig /\ [][CfNext]_vars

InitWorkers == ThIdle /\ InIdle /\ FuIdle /\ ReIdle /\ PiIdle /\ CfIdle /\ CoInit /\ SpIdle /\ DpIdle
SpecWorkers == InitWorkers /\ [][CoNext]_vars

InitProcess == ThIdle /\ InIdle /\ FuIdle /\ ReIdle /\ PiIdle /\ CfIdle /\ CoIdle /\ SpInit /\ DpIdle
SpecProcess == InitProcess /\ [][SpNext]_vars

InitDetectionPasses == ThIdle /\ InIdle /\ ShIdle /\ FuIdle /\ ReIdle /\ PiIdle /\ CfIdle /\ CoIdle /\ SpIdle /\ DpInit
SpecDetectionPasses == InitDetectionPasses /\ [][DpNext]_vars

----------------------------------------------------------------------------
(* Properties of the threshold strategies *)

Calculated == threshold_result.method_used # "none"

\* C1: for every strategy and every list of at least 2 samples the returned
\* threshold_value lies between min(values) and max(values).
C1_ThresholdInRange ==
    (Calculated /\ Len(bubble_mean_values) >= 2) =>
        /\ RLe(RInt(MinOf(bubble_mean_values)), threshold_result.threshold_value)
        /\ RLe(threshold_result.threshold_value, RInt(MaxOf(bubble_mean_values)))

----------------------------------------------------------------------------
(* Properties of the field interpretation *)

AllItemsBelowThreshold ==
    \A i \in 1..Len(field_bubble_means) :
        RLt(RInt(field_bubble_means[i]), interpretation.local_threshold_for_field)

\* C3 as stated: for every field with at least one item in which every item's
\* value is strictly below the threshold used for the field, after
\* run_interpretation the response string is the empty value and
\* is_multi_marked is true.
C3_AllMarkedOneItem ==
    (interpretation.ran /\ Len(field_bubble_means) >= 1 /\ AllItemsBelowThreshold) =>
        /\ get_field_interpretation_string(interpretation, empty_value) = empty_value
        /\ interpretation.is_multi_marked

\* C3 amended: the same for every field with at least two items.
C3_AllMarkedTwoItems ==
    (interpretation.ran /\ Len(field_bubble_means) >= 2 /\ AllItemsBelowThreshold) =>
        /\ get_field_interpretation_string(interpretation, empty_value) = empty_value
        /\ interpretation.is_multi_marked

C3_Witness ==
    /\ interpretation.ran
    /\ Len(field_bubble_means) >= 2
    /\ AllItemsBelowThreshold
    /\ interpretation.is_multi_marked
    /\ Join(MarkedValues(interpretation.bubble_interpretations)) # empty_value

----------------------------------------------------------------------------
(* Properties of the shift validation *)

\* the applicable maximum of a block, read from the configuration
ApplicableMax(b) ==
    IF b \in DOMAIN shift_config.per_block_max_shift_pixels
    THEN shift_config.per_block_max_shift_pixels[b]
    ELSE shift_config.global_max_shift_pixels

\* sqrt(dx^2 + dy^2) > m, for m >= 0, stated on the squares
ExceedsMax(shift, m) == shift[1] * shift[1] + shift[2] * shift[2] > m * m

\* C4: a call _validate_shifts(proposals) returns exactly the proposals whose
\* magnitude is at most their applicable maximum, with their dx and dy, and
\* shifts_rejected and shifts_applied grow by the numbers of rejected and of
\* accepted proposals.
C4_ValidateShifts ==
    [][validate_calls' # validate_calls =>
        LET rejectedBlocks == {b \in DOMAIN ml_alignments' :
                                  ExceedsMax(ml_alignments'[b], ApplicableMax(b))}
            acceptedBlocks == DOMAIN ml_alignments' \ rejectedBlocks
        IN  /\ DOMAIN validated' = acceptedBlocks
            /\ \A b \in acceptedBlocks :
                   validated'[b] = [dx |-> ml_alignments'[b][1],
                                    dy |-> ml_alignments'[b][2]]
            /\ stats'.shifts_rejected =
                   stats.shifts_rejected + Cardinality(rejectedBlocks)
            /\ stats'.shifts_applied =
                   stats.shifts_applied + Cardinality(acceptedBlocks)
            /\ stats'.mismatches_detected = stats.mismatches_detected
            /\ stats'.confidence_reductions = stats.confidence_reductions]_vars

\* a second call that accepts a proposal exactly on its per-block maximum,
\* accepts one that only a more permissive override allows, and rejects one
\* under the global maximum
C4_Witness ==
    /\ validate_calls = 2
    /\ stats.shifts_rejected >= 2
    /\ stats.shifts_applied >= 2
    /\ \E b \in DOMAIN validated :
           /\ b \in DOMAIN shift_config.per_block_max_shift_pixels
           /\ validated[b].dx * validated[b].dx + validated[b].dy * validated[b].dy
                  = ApplicableMax(b) * ApplicableMax(b)
    /\ \E b \in DOMAIN validated :
           /\ b \in DOMAIN shift_config.per_block_max_shift_pixels
           /\ ExceedsMax(ml_alignments[b], shift_config.global_max_shift_pixels)
    /\ \E b \in DOMAIN ml_alignments \ DOMAIN validated :
           b \notin DOMAIN shift_config.per_block_max_shift_pixels

----------------------------------------------------------------------------
(* Properties of the detection fusion *)

\* both confidences exceed the threshold and the two responses are the same
HighAgreement(t, m, thr) ==
    /\ RLt(thr, ConfidenceOf(t))
    /\ RLt(thr, ConfidenceOf(m))
    /\ t.bubbles = m.bubbles

\* C5: under confidence_weighted, a field whose traditional and ML confidence
\* both exceed the high-confidence threshold and whose responses agree is
\* fused to its traditional interpretation, and no discrepancy is recorded
\* for it: by _confidence_weighted_fusion itself and by fuse_detections.
C5_HighConfidenceAgreement ==
    /\ (/\ fusion_call.method = "_confidence_weighted_fusion"
        /\ HighAgreement(fusion_call.trad_interp, fusion_call.ml_interp,
                         fusion_call.confidence_threshold))
       => /\ fusion_return.raised = "None"
          /\ fusion_return.fused = fusion_call.trad_interp
          /\ fusion_return.discrepancy = NoDiscrepancy
    /\ (fusion_call.method = "fuse_detections"
        /\ fusion_strategy = "confidence_weighted")
       => \A f \in DOMAIN fusion_call.field_id_to_interpretation :
            HighAgreement(fusion_call.field_id_to_interpretation[f],
                          fusion_call.ml_blocks_response[f],
                          fusion_call.confidence_threshold)
            => /\ fusion_return.raised = "None"
               /\ f \in DOMAIN fusion_return.fused_response
               /\ fusion_return.fused_response[f]
                      = fusion_call.field_id_to_interpretation[f]
               /\ \A i \in 1..Len(fusion_return.discrepancies) :
                      fusion_return.discrepancies[i].field_id # f

\* the spec's example: both confidences 0.9, threshold 0.85, same response
C5_Witness ==
    /\ fusion_call.method = "_confidence_weighted_fusion"
    /\ fusion_call.confidence_threshold = Rat(85, 100)
    /\ fusion_call.trad_interp.confidence = Some(Rat(9, 10))
    /\ fusion_call.ml_interp.confidence = Some(Rat(9, 10))
    /\ fusion_call.trad_interp.bubbles = fusion_call.ml_interp.bubbles
    /\ fusion_return.fused = fusion_call.trad_interp

----------------------------------------------------------------------------
(* Properties of the detection repository *)

CurrentFileOps ==
    {"get_current_file_results", "save_bubble_field", "save_ocr_field",
     "save_barcode_field", "get_bubble_field", "get_ocr_field", "get_barcode_field"}

\* C6: a call of get_current_file_results, save_*_field or get_*_field made
\* while no file is active raises (RuntimeError); get_bubble_field(id) made
\* while a file is active raises KeyError when id was not saved in that file,
\* also when it was saved in an earlier file; and a call that raises leaves
\* the repository as it was.
C6_ErrorsLeaveStateUnchanged ==
    [][ /\ (/\ repo.current_file_results = NoObject
            /\ repo_outcome'.op \in CurrentFileOps)
           => /\ repo_outcome'.raised = "RuntimeError"
              /\ repo' = repo
        /\ (/\ repo.current_file_results # NoObject
            /\ repo_outcome'.op = "get_bubble_field"
            /\ repo_outcome'.arg[1]
                 \notin DOMAIN repo.heap[repo.current_file_results].bubble_fields)
           => /\ repo_outcome'.raised = "KeyError"
              /\ repo' = repo
        /\ (repo_outcome'.raised # "None") => repo' = repo
      ]_vars

\* after initialize_directory, with an earlier file still stored nowhere, a
\* save raised
C6_Witness ==
    /\ repo_outcome.op = "save_bubble_field"
    /\ repo_outcome.raised = "RuntimeError"
    /\ repo.directory_path # "None"
    /\ Len(repo.heap) > 0
    /\ repo.current_file_results = NoObject

\* C7: the paths of get_all_file_results, counted by get_total_files_processed,
\* are the paths that were active at a finalize_file since the latest
\* initialize_directory or clear; initialize_directory leaves no stored file
\* and no active file.
C7_StoredPathsAreFinalizedPaths ==
    /\ DOMAIN get_all_file_results(repo).returned = finalized_paths
    /\ get_total_files_processed(repo).returned = Cardinality(finalized_paths)
    /\ repo_outcome.op = "get_all_file_results"
       => DOMAIN repo_outcome.returned = finalized_paths
    /\ repo_outcome.op = "get_total_files_processed"
       => repo_outcome.returned = Cardinality(finalized_paths)
    /\ repo_outcome.op = "initialize_directory"
       => /\ DOMAIN repo.file_results = {}
          /\ repo.current_file_results = NoObject

\* two files were finalized, a directory was initialized, one file was
\* finalized again
C7_Witness ==
    /\ Len(repo.heap) = 2
    /\ repo.directory_path # "None"
    /\ repo_outcome.op = "get_all_file_results"
    /\ DOMAIN repo_outcome.returned = {repo.heap[2].file_path}
    /\ repo.file_results[repo.heap[2].file_path] = 2

----------------------------------------------------------------------------
(* Properties of the processing pipeline *)

\* the first stage that raises in the latest process_file call, else the
\* number of stages
LastStageCalled ==
    LET failing == pipeline_call.raising \cap (1..Len(pipeline_call.before))
    IN  IF failing = {} THEN Len(pipeline_call.before)
        ELSE CHOOSE k \in failing : \A j \in failing : k <= j

\* C8: process_file calls the stages one at a time in list order, each with
\* the context the previous one returned; when stage k raises no later stage
\* is called and the exception of stage k reaches the caller.
C8_SequentialStages ==
    pipeline_call.op = "process_file" =>
        LET procs == pipeline_call.before
            calls == pipeline_return.calls
            n == LastStageCalled
            failed == pipeline_call.raising # {}
        IN  /\ processors = procs
            /\ Len(calls) = n
            /\ \A i \in 1..n :
                /\ calls[i].processor = procs[i]
                /\ calls[i].context =
                     IF i = 1 THEN ProcessingContext(pipeline_call.file_path)
                     ELSE Process(procs[i - 1], calls[i - 1].context)
            /\ failed =>
                 pipeline_return.raised =
                     [type |-> pipeline_call.exc_type, origin |-> n]
            /\ ~failed =>
                 /\ pipeline_return.raised = NoException
                 /\ pipeline_return.returned =
                      IF n = 0 THEN ProcessingContext(pipeline_call.file_path)
                      ELSE Process(procs[n], calls[n].context)

\* the second of at least four stages raised, a later one would have raised too
C8_Witness ==
    /\ pipeline_call.op = "process_file"
    /\ Len(pipeline_call.before) >= 4
    /\ pipeline_call.raising = {2, 4}
    /\ pipeline_return.raised = [type |-> "OMRCheckerError", origin |-> 2]
    /\ Len(pipeline_return.calls) = 2

\* the stages of before that are not called name, in their order
KeptIndices(before, name) == {i \in 1..Len(before) : before[i].name # name}
NthKept(before, name, j) ==
    CHOOSE i \in KeptIndices(before, name) :
        Cardinality({x \in KeptIndices(before, name) : x < i}) = j - 1

\* C9: add_processor(p) puts p after the stages that were there;
\* remove_processor(name) drops every stage called name and keeps the others
\* in their order; get_processor_names returns the names in execution order.
C9_ProcessorManagement ==
    /\ pipeline_call.op = "add_processor" =>
        /\ Len(processors) = Len(pipeline_call.before) + 1
        /\ processors[Len(processors)] = pipeline_call.processor
        /\ \A i \in 1..Len(pipeline_call.before) :
              processors[i] = pipeline_call.before[i]
    /\ pipeline_call.op = "remove_processor" =>
        LET before == pipeline_call.before
            name == pipeline_call.processor_name
        IN  /\ Len(processors) = Cardinality(KeptIndices(before, name))
            /\ \A j \in 1..Len(processors) :
                  processors[j] = before[NthKept(before, name, j)]
    /\ pipeline_call.op = "get_processor_names" =>
        /\ processors = pipeline_call.before
        /\ Len(pipeline_return.returned) = Len(processors)
        /\ \A i \in 1..Len(processors) :
              pipeline_return.returned[i] = processors[i].name

\* two stages called ReadOMR were removed at once, stages remain on both sides
C9_Witness ==
    /\ pipeline_call.op = "remove_processor"
    /\ pipeline_call.processor_name = "ReadOMR"
    /\ Cardinality({i \in 1..Len(pipeline_call.before) :
                      pipeline_call.before[i].name = "ReadOMR"}) = 2
    /\ Len(processors) = Len(pipeline_call.before) - 2
    /\ Len(processors) >= 3
    /\ processors[Len(processors)].name = "Evaluation"

----------------------------------------------------------------------------
(* Properties of the configuration validation *)

IsPositive(x) == x.type = "number" /\ RLt(RInt(0), x.v)
IsOne(x) == x.type = "number" /\ x.v = RInt(1)

----------------------------------------------------------------------------
(* Properties of the worker tasks *)

AllDone == \A w \in Workers : tasks[w].pc = "done"

\* what the file of worker w contributes to each counter
AppliedBy(w) == Cardinality(DOMAIN ValidateShifts(shift_config, tasks[w].alignments))
RejectedBy(w) == Cardinality(DOMAIN tasks[w].alignments) - AppliedBy(w)
MismatchesBy(w) == IF AppliedBy(w) = 0 THEN 0 ELSE tasks[w].mismatches

RECURSIVE SumOf(_, _)
SumOf(f, S) ==
    IF S = {} THEN 0
    ELSE LET x == CHOOSE y \in S : TRUE IN f[x] + SumOf(f, S \ {x})

\* C11: when all worker tasks have ended, each shared counter equals the sum
\* of what the files contributed, whatever the interleaving.
C11_NoLostUpdate ==
    AllDone =>
        /\ stats.shifts_applied = SumOf([w \in Workers |-> AppliedBy(w)], Workers)
        /\ stats.shifts_rejected = SumOf([w \in Workers |-> RejectedBy(w)], Workers)
        /\ stats.mismatches_detected
             = SumOf([w \in Workers |-> MismatchesBy(w)], Workers)
        /\ Len(stats.confidence_reductions)
             = SumOf([w \in Workers |-> MismatchesBy(w)], Workers)


----------------------------------------------------------------------------
(* Properties of the Global and Local strategies *)

\* the radius-1 window jump around the 1-based position i of a sorted list
WindowJump(s, i) == s[i + 1] - s[i - 1]

WindowCentres(s) == 2..(Len(s) - 1)

LargestWindowJump(s) ==
    CHOOSE j \in {WindowJump(s, i) : i \in WindowCentres(s)} :
        \A k \in WindowCentres(s) : WindowJump(s, k) <= j

FirstLargestWindow(s) ==
    CHOOSE i \in WindowCentres(s) :
        /\ WindowJump(s, i) = LargestWindowJump(s)
        /\ \A k \in WindowCentres(s) : k < i => WindowJump(s, k) < LargestWindowJump(s)

GlobalCalculated == Calculated /\ strategy.kind = "global"

\* C12: for every list of n >= 3 samples whose largest radius-1 window jump
\* exceeds min_jump, the Global strategy returns threshold = sorted[i-1] + jump/2
\* at the first index attaining the largest jump, max_jump equal to that jump,
\* confidence = min(1, max_jump / (3 * min_jump)) and fallback_used = false.
C12_GlobalLargestJump ==
    LET s == sorted(bubble_mean_values)
    IN  (/\ GlobalCalculated
         /\ Len(bubble_mean_values) >= 3
         /\ LargestWindowJump(s) > config.min_jump) =>
            LET i == FirstLargestWindow(s)
                jump == LargestWindowJump(s)
            IN  /\ threshold_result.threshold_value = RAdd(RInt(s[i - 1]), Rat(jump, 2))
                /\ threshold_result.max_jump = jump
                /\ threshold_result.confidence =
                       RMin(RInt(1), Rat(jump, 3 * config.min_jump))
                /\ threshold_result.fallback_used = FALSE
                /\ RLt(RInt(s[i - 1]), threshold_result.threshold_value)
                /\ RLt(threshold_result.threshold_value, RInt(s[i + 1]))

\* four samples in which two windows attain the largest jump
C12_Witness ==
    LET s == sorted(bubble_mean_values)
    IN  /\ GlobalCalculated
        /\ Len(s) = 4
        /\ s[1] < s[2]
        /\ WindowJump(s, 2) = WindowJump(s, 3)
        /\ WindowJump(s, 2) > config.min_jump
        /\ threshold_result.threshold_value = RAdd(RInt(s[1]), Rat(WindowJump(s, 2), 2))
        /\ ~threshold_result.fallback_used


LocalCalculated == Calculated /\ strategy.kind = "local"

\* the fallback the caller supplied, the default only when none was supplied
SuppliedFallback ==
    IF strategy.global_fallback.some
    THEN strategy.global_fallback.v
    ELSE config.default_threshold

\* C13: with fewer than 2 samples the Global strategy returns default_threshold,
\* confidence 0 and fallback_used = true, and the Local strategy returns the
\* supplied global_fallback for every supplied value (default_threshold only
\* when none was supplied), confidence 0 and fallback_used = true.
C13_FewerThanTwoSamples ==
    /\ (GlobalCalculated /\ Len(bubble_mean_values) < 2) =>
           /\ threshold_result.threshold_value = config.default_threshold
           /\ threshold_result.confidence = RInt(0)
           /\ threshold_result.fallback_used
    /\ (LocalCalculated /\ Len(bubble_mean_values) < 2) =>
           /\ threshold_result.threshold_value = SuppliedFallback
           /\ threshold_result.confidence = RInt(0)
           /\ threshold_result.fallback_used


ConfidentJump == config.min_jump + config.min_jump_surplus_for_global_fallback

C16_GlobalSmallJumpFallback ==
    LET s == sorted(bubble_mean_values)
    IN  (/\ GlobalCalculated
         /\ Len(bubble_mean_values) >= 2
         /\ \A k \in WindowCentres(s) : WindowJump(s, k) < config.min_jump) =>
            /\ threshold_result.fallback_used
            /\ Len(s) >= 3 =>
                   LET i == FirstLargestWindow(s)
                   IN  threshold_result.threshold_value = Rat(s[i - 1] + s[i + 1], 2)


----------------------------------------------------------------------------
(* Properties of the Adaptive strategy *)

AdaptiveCalculated == Calculated /\ strategy.kind = "adaptive"

\* the result of the k-th member strategy on the current samples
SubResult(k) == SubCalculateThreshold(strategy.strategies[k], bubble_mean_values, config)

IntMax(a, b) == IF a >= b THEN a ELSE b

\* the claimed combination for one and for two member strategies
Combination ==
    LET r1 == SubResult(1)
        r2 == SubResult(2)
        cw1 == RMul(r1.confidence, strategy.weights[1])
        cw2 == RMul(r2.confidence, strategy.weights[2])
    IN  IF Len(strategy.strategies) = 1
        THEN [total |-> cw1,
              weighted |-> RMul(r1.threshold_value, cw1),
              confidence |-> r1.confidence,
              max_jump |-> r1.max_jump,
              fallback_used |-> r1.fallback_used]
        ELSE [total |-> RAdd(cw1, cw2),
              weighted |-> RAdd(RMul(r1.threshold_value, cw1),
                                RMul(r2.threshold_value, cw2)),
              confidence |-> RMax(r1.confidence, r2.confidence),
              max_jump |-> IntMax(r1.max_jump, r2.max_jump),
              fallback_used |-> r1.fallback_used \/ r2.fallback_used]

\* C17: the Adaptive strategy returns threshold = sum(t_i*c_i*w_i)/sum(c_i*w_i),
\* confidence = max(c_i), max_jump = max(j_i) and fallback_used = OR(f_i); when
\* sum(c_i*w_i) = 0 it returns default_threshold, confidence 0 and
\* fallback_used = true.
C17_AdaptiveCombination ==
    (AdaptiveCalculated /\ Len(strategy.strategies) \in {1, 2}) =>
        LET c == Combination
        IN  IF c.total.n = 0
            THEN /\ threshold_result.threshold_value = config.default_threshold
                 /\ threshold_result.confidence = RInt(0)
                 /\ threshold_result.fallback_used
            ELSE /\ RMul(threshold_result.threshold_value, c.total) = c.weighted
                 /\ threshold_result.confidence = c.confidence
                 /\ threshold_result.max_jump = c.max_jump
                 /\ threshold_result.fallback_used = c.fallback_used

\* two member strategies with different thresholds, confidences and weights,
\* one of which fell back
C17_Witness ==
    /\ AdaptiveCalculated
    /\ Len(strategy.strategies) = 2
    /\ strategy.weights[1] # strategy.weights[2]
    /\ SubResult(1).threshold_value # SubResult(2).threshold_value
    /\ SubResult(1).confidence.n # 0
    /\ SubResult(2).confidence.n # 0
    /\ SubResult(1).confidence # SubResult(2).confidence
    /\ SubResult(1).fallback_used # SubResult(2).fallback_used
    /\ threshold_result.method_used = "adaptive_weighted"
    /\ threshold_result.fallback_used


----------------------------------------------------------------------------
(* Properties of the response string and of the confidence score *)

\* the positions whose value is strictly below the threshold of the field
BelowThreshold ==
    {i \in 1..Len(field_bubble_means) :
        field_bubble_means[i] * interpretation.local_threshold_for_field.d
            < interpretation.local_threshold_for_field.n}

\* the labels of the positions of S among the first k items, in item order
RECURSIVE LabelsOf(_, _)
LabelsOf(S, k) ==
    IF k = 0 THEN ""
    ELSE LabelsOf(S, k - 1) \o (IF k \in S THEN BubbleValues[k] ELSE "")

\* C18: an item is marked exactly when its value is strictly less than the
\* field threshold, and the response string is the concatenation of the labels
\* of the marked items in item order, except that it is the configured empty
\* value when no item is marked or when all items are marked.
C18_MarkedAndResponse ==
    interpretation.ran =>
        LET n == Len(field_bubble_means)
            bis == interpretation.bubble_interpretations
        IN  /\ Len(bis) = n
            /\ \A i \in 1..n : bis[i].is_attempted <=> i \in BelowThreshold
            /\ get_field_interpretation_string(interpretation, empty_value) =
                   IF BelowThreshold = {} \/ BelowThreshold = 1..n
                   THEN empty_value
                   ELSE LabelsOf(BelowThreshold, n)

\* the first and the third item are marked, the second one equals the threshold
C18_Witness ==
    /\ interpretation.ran
    /\ Len(field_bubble_means) >= 3
    /\ BelowThreshold = {1, 3}
    /\ RInt(field_bubble_means[2]) = interpretation.local_threshold_for_field
    /\ get_field_interpretation_string(interpretation, empty_value) = "AC"


\* the factor the scan-quality buckets are documented to map to
BucketFactor(bucket) ==
    IF bucket = "excellent" THEN RInt(1)
    ELSE IF bucket = "good" THEN Rat(9, 10)
    ELSE IF bucket = "acceptable" THEN Rat(7, 10)
    ELSE Rat(5, 10)

\* C19: in the field confidence score the scan_quality_factor equals 1.0, 0.9,
\* 0.7 and 0.5 for a field whose scan-quality bucket (derived from the standard
\* deviation of the field) is excellent, good, acceptable and poor.
C19_ScanQualityFactor ==
    (/\ interpretation.ran
     /\ interpretation.confidence_metrics.present
     /\ Len(field_bubble_means) >= 1) =>
        ScanQualityFactor(interpretation.confidence_metrics.scan_quality)
            = BucketFactor(interpretation.confidence_metrics.scan_quality)


----------------------------------------------------------------------------
(* Properties of the fusion under disagreement *)

HighDisagreement(t, m, thr) ==
    /\ RLt(thr, ConfidenceOf(t))
    /\ RLt(thr, ConfidenceOf(m))
    /\ t.bubbles # m.bubbles

\* the fused value is the interpretation of the source with the higher confidence
HigherConfidenceWins(fused, t, m) ==
    /\ RLt(ConfidenceOf(m), ConfidenceOf(t)) => fused = t
    /\ RLt(ConfidenceOf(t), ConfidenceOf(m)) => fused = m
    /\ fused \in {t, m}

\* C20: under confidence_weighted, for every field whose traditional and ML
\* confidences both exceed the high-confidence threshold and whose responses
\* disagree, a discrepancy record with reason high_confidence_disagreement is
\* appended to the discrepancy list and the fused value is the interpretation
\* of the source with the higher confidence.
C20_HighConfidenceDisagreement ==
    /\ (/\ fusion_call.method = "_confidence_weighted_fusion"
        /\ HighDisagreement(fusion_call.trad_interp, fusion_call.ml_interp,
                            fusion_call.confidence_threshold))
       => /\ fusion_return.raised = "None"
          /\ fusion_return.discrepancy =
                 [field_id |-> fusion_call.field_id,
                  reason |-> "high_confidence_disagreement"]
          /\ HigherConfidenceWins(fusion_return.fused, fusion_call.trad_interp,
                                  fusion_call.ml_interp)
    /\ (fusion_call.method = "fuse_detections"
        /\ fusion_strategy = "confidence_weighted")
       => \A f \in DOMAIN fusion_call.field_id_to_interpretation :
            HighDisagreement(fusion_call.field_id_to_interpretation[f],
                             fusion_call.ml_blocks_response[f],
                             fusion_call.confidence_threshold)
            => /\ fusion_return.raised = "None"
               /\ \E i \in 1..Len(fusion_return.discrepancies) :
                      fusion_return.discrepancies[i] =
                          [field_id |-> f, reason |-> "high_confidence_disagreement"]
               /\ f \in DOMAIN fusion_return.fused_response
               /\ HigherConfidenceWins(fusion_return.fused_response[f],
                                       fusion_call.field_id_to_interpretation[f],
                                       fusion_call.ml_blocks_response[f])


----------------------------------------------------------------------------
(* Properties of the fusion strategies through fuse_detections *)

NotBothHigh(t, m, thr) ==
    ~(RLt(thr, ConfidenceOf(t)) /\ RLt(thr, ConfidenceOf(m)))

\* traditional confidence < 0.6 and ML confidence > threshold
MlPreferred(t, m, thr) ==
    RLt(ConfidenceOf(t), Rat(6, 10)) /\ RLt(thr, ConfidenceOf(m))

ExpectedLowConfidenceFusion(t, m, thr) == IF MlPreferred(t, m, thr) THEN m ELSE t

\* the discrepancies recorded for field f by the fuse_detections call
DiscrepanciesOf(f) ==
    {i \in 1..Len(fusion_return.discrepancies) :
        fusion_return.discrepancies[i].field_id = f}

FuseDetectionsCalled(name) ==
    fusion_call.method = "fuse_detections" /\ fusion_strategy = name

\* C21: under confidence_weighted, for every field with an ML interpretation
\* where the two confidences are not both above the threshold, the fused value
\* is the ML-derived interpretation exactly when traditional confidence < 0.6
\* and ML confidence > threshold, and the traditional interpretation otherwise;
\* in neither case is a discrepancy recorded.
C21_LowConfidenceFusion ==
    /\ (/\ fusion_call.method = "_confidence_weighted_fusion"
        /\ NotBothHigh(fusion_call.trad_interp, fusion_call.ml_interp,
                       fusion_call.confidence_threshold))
       => /\ fusion_return.raised = "None"
          /\ fusion_return.fused =
                 ExpectedLowConfidenceFusion(fusion_call.trad_interp,
                                             fusion_call.ml_interp,
                                             fusion_call.confidence_threshold)
          /\ fusion_return.discrepancy = NoDiscrepancy
    /\ FuseDetectionsCalled("confidence_weighted")
       => \A f \in DOMAIN fusion_call.field_id_to_interpretation :
            NotBothHigh(fusion_call.field_id_to_interpretation[f],
                        fusion_call.ml_blocks_response[f],
                        fusion_call.confidence_threshold)
            => /\ fusion_return.raised = "None"
               /\ f \in DOMAIN fusion_return.fused_response
               /\ fusion_return.fused_response[f] =
                      ExpectedLowConfidenceFusion(
                          fusion_call.field_id_to_interpretation[f],
                          fusion_call.ml_blocks_response[f],
                          fusion_call.confidence_threshold)
               /\ DiscrepanciesOf(f) = {}


\* C22: under traditional_primary, for every field for which an ML
\* interpretation is available, fuse_detections completes and returns the
\* traditional interpretation for that field, and appends a discrepancy with
\* reason informational_difference exactly when the two responses differ.
C22_TraditionalPrimary ==
    FuseDetectionsCalled("traditional_primary")
    => \A f \in DOMAIN fusion_call.field_id_to_interpretation :
         LET t == fusion_call.field_id_to_interpretation[f]
             ml == fusion_call.ml_blocks_response[f]
         IN  /\ fusion_return.raised = "None"
             /\ f \in DOMAIN fusion_return.fused_response
             /\ fusion_return.fused_response[f] = t
             /\ t.bubbles # ml.bubbles
                    <=> \E i \in DiscrepanciesOf(f) :
                            fusion_return.discrepancies[i].reason
                                = "informational_difference"
             /\ t.bubbles = ml.bubbles => DiscrepanciesOf(f) = {}

\* C23: when the configured strategy name is not one of the registered
\* strategies, fuse_detections does not raise, every field's fused value is
\* its traditional interpretation, no discrepancy is recorded, and a warning
\* is emitted (for a call with at least one field that has an ML detection).
C23_UnknownStrategy ==
    (/\ fusion_call.method = "fuse_detections"
     /\ fusion_strategy \notin {"confidence_weighted", "ml_fallback",
                                "traditional_primary"})
    => /\ fusion_return.raised = "None"
       /\ \A f \in DOMAIN fusion_call.field_id_to_interpretation :
            /\ f \in DOMAIN fusion_return.fused_response
            /\ fusion_return.fused_response[f]
                   = fusion_call.field_id_to_interpretation[f]
       /\ fusion_return.discrepancies = <<>>
       /\ DOMAIN fusion_call.field_id_to_interpretation # {}
              => fusion_return.warnings >= 1



----------------------------------------------------------------------------
(* Properties of the shifted-vs-baseline comparison and of process *)

\* the comparison of the latest call ran to its end
ComparisonRan ==
    \/ shift_call.method = "_compare_and_adjust_confidence"
           /\ shift_return.raised = "None"
    \/ shift_call.method = "process" /\ shift_return.changed

\* the confidence_reductions report of the latest call
ReductionsReport ==
    IF shift_call.method = "process"
    THEN shift_return.comparison.confidence_reductions
    ELSE shift_return.confidence_reductions

ComparedFields == DOMAIN shift_call.shifted \cap DOMAIN shift_call.baseline

DifferingBubbles(f) ==
    Cardinality({i \in 1..Len(shift_call.shifted[f].bubble_values) :
                    shift_call.shifted[f].bubble_values[i]
                        # shift_call.baseline[f].bubble_values[i]})

FieldDiffers(f) ==
    \/ DifferingBubbles(f) > 0
    \/ shift_call.shifted[f].response # shift_call.baseline[f].response

\* differing bubbles / total bubbles of the field, 0 for a field without bubbles
Severity(f) ==
    IF Len(shift_call.shifted[f].bubble_values) = 0 THEN RInt(0)
    ELSE Rat(DifferingBubbles(f), Len(shift_call.shifted[f].bubble_values))

\* the confidence the shifted pass reported (1.0 when it reported none)
OriginalConfidence(f) ==
    IF shift_call.shifted[f].confidence.some
    THEN shift_call.shifted[f].confidence.v
    ELSE RInt(1)

\* max(0, original - (reduction_min + severity * (reduction_max - reduction_min)))
ExpectedConfidence(f) ==
    LET lo == shift_config.confidence_reduction_min
        hi == shift_config.confidence_reduction_max
        reduction == RAdd(lo, RMul(Severity(f), RAdd(hi, RMul(RInt(-1), lo))))
    IN  RMax(RInt(0), RAdd(OriginalConfidence(f), RMul(RInt(-1), reduction)))

\* C24: in the shifted-vs-baseline comparison, for every field present in both
\* result sets: if at least one bubble state or the response string differs,
\* the field's confidence becomes max(0, original - (reduction_min + severity *
\* (reduction_max - reduction_min))) with severity = differing bubbles / total
\* bubbles of the field (0 when the field has no bubbles), and one entry is
\* added to the confidence_reductions report; if nothing differs, the
\* confidence is unchanged and no entry is added.
C24_ConfidenceAdjustment ==
    ComparisonRan =>
        /\ \A f \in ComparedFields :
             IF FieldDiffers(f)
             THEN /\ shift_return.interpretations[f].confidence
                         = Some(ExpectedConfidence(f))
                  /\ f \in DOMAIN ReductionsReport
                  /\ ReductionsReport[f].final = ExpectedConfidence(f)
             ELSE /\ shift_return.interpretations[f] = shift_call.shifted[f]
                  /\ f \notin DOMAIN ReductionsReport
        /\ DOMAIN ReductionsReport \subseteq ComparedFields
        /\ Len(stats.confidence_reductions) =
               Len(shift_call.stats.confidence_reductions)
                   + Cardinality({f \in ComparedFields : FieldDiffers(f)})
        /\ \A f \in DOMAIN shift_call.shifted \ ComparedFields :
               shift_return.interpretations[f] = shift_call.shifted[f]

\* q1 differs in response only (severity 0), q2 differs in every bubble and
\* its confidence 0.3 is cut to 0
C24_Witness ==
    /\ shift_call.method = "_compare_and_adjust_confidence"
    /\ ComparedFields = {"q1", "q2"}
    /\ DifferingBubbles("q1") = 0
    /\ FieldDiffers("q1")
    /\ shift_return.interpretations["q1"].confidence # shift_call.shifted["q1"].confidence
    /\ Severity("q2") = RInt(1)
    /\ shift_call.shifted["q2"].confidence = Some(Rat(3, 10))
    /\ shift_return.interpretations["q2"].confidence = Some(RInt(0))
    /\ Len(stats.confidence_reductions) = 2


AllZero(blocks) == \A b \in DOMAIN blocks : blocks[b] = <<0, 0>>

\* C25: whenever ShiftDetectionProcessor.process finishes for a file, whether
\* it returns normally or the shifted detection pass raises, every field block
\* of the template has its shifts reset to zero, and the baseline pass is run
\* with zero shifts on every block.
C25_ShiftsNeverPersist ==
    shift_call.method = "process" =>
        /\ AllZero(template_field_blocks)
        /\ Len(shift_return.passes) >= 2 => AllZero(shift_return.passes[2])


----------------------------------------------------------------------------
(* Properties of the pipeline as built *)

\* the stages ProcessingPipeline.__init__ may append besides the backbone
OptionalStages == {"MLFieldBlockDetector", "ShiftDetection", "TrainingDataCollector"}

PositionsOf(name) == {i \in 1..Len(processors) : processors[i].name = name}

\* C26: for every combination of the optional flags, the pipeline built by
\* ProcessingPipeline has the ReadOMR stage as its last stage, with every
\* enabled optional stage placed before it; hence the last processor used by
\* Template.finish_processing_directory is always the ReadOMR stage.
C26_ReadOMRIsLast ==
    pipeline_call.op = "__init__" =>
        /\ processors[Len(processors)].name = "ReadOMR"
        /\ \A i \in 1..Len(processors) :
               processors[i].name \in OptionalStages
                   => \E j \in PositionsOf("ReadOMR") : i < j
        /\ finish_processing_directory(processors).name = "ReadOMR"

----------------------------------------------------------------------------
(* Detection passes of two files on one repository *)

\* the FileDetectionResults objects created for a file
ObjectsOf(file_path) ==
    {i \in 1..Len(repo.heap) : repo.heap[i].file_path = file_path}

\* a saved field stands, with the saved result, in an object of the saving file
InOwnResults(s) ==
    \E i \in ObjectsOf(s.file_path) :
        /\ s.field_id \in DOMAIN repo.heap[i].bubble_fields
        /\ repo.heap[i].bubble_fields[s.field_id] = s.result

\* the stored results of a file hold only what that file's task saved
OnlyOwnFields(file_path) ==
    LET stored == repo.heap[repo.file_results[file_path]]
    IN  \A field_id \in DOMAIN stored.bubble_fields :
            [file_path |-> file_path, field_id |-> field_id,
             result |-> stored.bubble_fields[field_id]] \in saved_by

\* C27: when the detection passes of two files interleave on one shared
\* repository, every saved field is in the results of the file whose task saved
\* it, and the finalized results of each file contain only its own fields
C27_InterleavedPasses ==
    /\ \A s \in saved_by : InOwnResults(s)
    /\ \A file_path \in DOMAIN repo.file_results : OnlyOwnFields(file_path)

----------------------------------------------------------------------------
(* Stored results after finalize_file *)

\* what get_file_results(file_path) returns, with the fields of the object
StoredResults(self, file_path) ==
    self.heap[get_file_results(self, file_path).returned]

\* the step is a finalize_file of file_path after an initialize_file(file_path)
RefinalizedStep(file_path) ==
    /\ repo_outcome'.op = "finalize_file"
    /\ repo.current_file_results # NoObject
    /\ repo.heap[repo.current_file_results].file_path = file_path

\* C28: once finalize_file has stored a file's results, what get_file_results
\* returns for that file is not changed by a later save_*_field call; it
\* changes only through a new initialize_file(path) followed by finalize_file
C28_StoredResultsFrozen ==
    [][\A file_path \in DOMAIN repo.file_results \cap DOMAIN repo'.file_results :
           StoredResults(repo', file_path) # StoredResults(repo, file_path)
               => RefinalizedStep(file_path)]_vars

----------------------------------------------------------------------------
(* Strategy names of the schema and of DetectionFusion *)

\* C29: every fusion_strategy name the configuration schema accepts is a key
\* of FUSION_STRATEGIES, so a DetectionFusion built from a schema-valid
\* configuration never has a strategy name without a registered method
C29_SchemaStrategiesRegistered ==
    fusion_strategy \in fusion_strategy_enum
        => fusion_strategy \in DOMAIN FUSION_STRATEGIES

----------------------------------------------------------------------------
(* The range of the overall confidence score *)

\* the confidence metrics of the latest run_interpretation were computed
MetricsComputed == interpretation.ran /\ interpretation.confidence_metrics.present

OverallConfidenceScore == interpretation.confidence_metrics.overall_confidence_score

\* the default high-confidence threshold of the fusion and of the
\* training-data collection
HighConfidenceThreshold == Rat(85, 100)

\* C30: for every field and every threshold result the overall confidence
\* score the field interpreter computes is at most 0.8, and it is 0 for a
\* field with no items, so it stays below the default high-confidence
\* threshold 0.85
C30_ScoreBelowHighConfidence ==
    MetricsComputed
    => /\ RLe(OverallConfidenceScore, Rat(8, 10))
       /\ field_bubble_means = <<>> => OverallConfidenceScore = RInt(0)
       /\ RLt(OverallConfidenceScore, HighConfidenceThreshold)

\* a field with items whose score is as high as 0.7
C30_Witness ==
    /\ MetricsComputed
    /\ field_bubble_means # <<>>
    /\ RLe(Rat(7, 10), OverallConfidenceScore)

====
